---- MODULE Spec2Model ----
(***************************************************************************)
(* Model of digital_librarian: backend/parse_pdfs.py (metadata extraction  *)
(* and merge policy) and backend/make_bibtex.py (citation keys/records).   *)
(* Python str values are TLA+ strings, handled character by character with *)
(* Len, SubSeq and \o.  Optional values are sequences: None is <<>> and a  *)
(* present value x is <<x>>.                                               *)
(***************************************************************************)
EXTENDS Integers, Sequences, FiniteSets, TLC

VARIABLES
    records,      \* make_bibtex.process_root: the 'pdfs' list read from the parsed file
    used_keys,    \* make_bibtex.process_root: used_keys, key -> occurrence count
    bib_records,  \* make_bibtex.process_root: bib_records emitted so far
    rec_i,        \* make_bibtex.process_root: number of records consumed by the loop
    bib_out,      \* make_bibtex.process_root: the batch written by write_json, None before
    cands,        \* _pick_best_year_scored: the pool of (year, score) pairs passed in
    picked,       \* _pick_best_year_scored: the returned value, None before the call
    line,         \* _score_year_in_line: the line argument
    line_year,    \* _score_year_in_line: the year argument, a year found in the line
    score,        \* _score_year_in_line: the returned score, None before the call
    root_files,   \* parse_pdfs.process_root: the files under root, in os.walk order
    pdfs,         \* parse_pdfs.process_root: pdfs, the list find_pdfs returns, None before
    pdf_records,  \* parse_pdfs.process_root: the records built so far by the comprehension
    pdf_rec,      \* parse_pdf: rec, None outside the call
    pdf_title,    \* parse_pdf: pdf_title, None before the assignment of line 714
    pc,           \* parse_pdfs.process_root / parse_pdf: the statement reached
    data,         \* parse_pdfs.main: data, what process_root returned, None before
    lines1,       \* fallback_authors_from_pdf: lines, the first-page lines
    pdf_authors,  \* fallback_authors_from_pdf: the returned value, None before the call
    noise_s,      \* _looks_like_noise_line: the argument s
    noise,        \* _looks_like_noise_line: the returned value, None before the call
    roots,        \* make_bibtex.main: roots, what each path of input.json holds
    root_i,       \* make_bibtex.main: number of roots consumed by the loop
    wrote_any,    \* make_bibtex.main: wrote_any
    written,      \* make_bibtex.main: the outputs write_json has written, in order
    exit_status   \* make_bibtex.main: the exit status of the run, None while it runs

bibVars == <<records, used_keys, bib_records, rec_i, bib_out>>
pickVars == <<cands, picked>>
scoreVars == <<line, line_year, score>>
parseVars == <<root_files, pdfs, pdf_records, pdf_rec, pdf_title, pc, data>>
authorVars == <<lines1, pdf_authors>>
noiseVars == <<noise_s, noise>>
mainVars == <<roots, root_i, wrote_any, written, exit_status>>
vars == <<records, used_keys, bib_records, rec_i, bib_out, cands, picked,
          line, line_year, score, root_files, pdfs, pdf_records, pdf_rec, pdf_title,
          pc, data, lines1, pdf_authors, noise_s, noise,
          roots, root_i, wrote_any, written, exit_status>>

None == <<>>
Some(x) == <<x>>

(***************************************************************************)
(* Python string primitives                                                *)
(***************************************************************************)
LowerAlpha == "abcdefghijklmnopqrstuvwxyz"
UpperAlpha == "ABCDEFGHIJKLMNOPQRSTUVWXYZ"
DigitStr == "0123456789"

\* s[i-1:i]: the i-th character, "" outside the string
Ch(s, i) == IF 1 <= i /\ i <= Len(s) THEN SubSeq(s, i, i) ELSE ""

\* the n characters of s from the i-th on, "" when they do not all exist
Sub(s, i, n) == IF 1 <= i /\ i + n - 1 <= Len(s) THEN SubSeq(s, i, i + n - 1) ELSE ""

LowerChars == {Ch(LowerAlpha, i) : i \in 1..26}
UpperChars == {Ch(UpperAlpha, i) : i \in 1..26}
DigitChars == {Ch(DigitStr, i) : i \in 1..10}
SpaceChars == {" ", "\t", "\n"}

IsDigit(c) == c \in DigitChars
IsAlpha(c) == c \in LowerChars \cup UpperChars
\* regex \w on the ASCII range
IsWordChar(c) == IsAlpha(c) \/ IsDigit(c) \/ c = "_"

LowerChar(c) ==
    IF c \in UpperChars
    THEN Ch(LowerAlpha, CHOOSE i \in 1..26 : Ch(UpperAlpha, i) = c)
    ELSE c

UpperChar(c) ==
    IF c \in LowerChars
    THEN Ch(UpperAlpha, CHOOSE i \in 1..26 : Ch(LowerAlpha, i) = c)
    ELSE c

\* "".join(pieces[a-1:b]) for a <= b, by halves to keep the evaluation shallow
RECURSIVE ConcatRange(_, _, _)
ConcatRange(pieces, a, b) ==
    IF a = b THEN pieces[a]
    ELSE LET mid == (a + b) \div 2
         IN ConcatRange(pieces, a, mid) \o ConcatRange(pieces, mid + 1, b)

\* "".join(pieces)
Concat(pieces) == IF Len(pieces) = 0 THEN "" ELSE ConcatRange(pieces, 1, Len(pieces))

\* the elements of S as a list in increasing order
SortedSeq(S) ==
    [k \in 1..Cardinality(S) |-> CHOOSE x \in S : Cardinality({y \in S : y < x}) = k - 1]

\* s.lower()
Lower(s) == Concat([i \in 1..Len(s) |-> LowerChar(Ch(s, i))])

\* s.upper()
Upper(s) == Concat([i \in 1..Len(s) |-> UpperChar(Ch(s, i))])

\* sub in s
Contains(s, sub) ==
    \E i \in 1..(Len(s) - Len(sub) + 1) : SubSeq(s, i, i + Len(sub) - 1) = sub

\* s.find(sub): 0-based index of the first occurrence, -1 when absent
Find(s, sub) ==
    IF Contains(s, sub)
    THEN (CHOOSE i \in 1..(Len(s) - Len(sub) + 1) :
            /\ SubSeq(s, i, i + Len(sub) - 1) = sub
            /\ \A j \in 1..(i-1) : SubSeq(s, j, j + Len(sub) - 1) # sub) - 1
    ELSE -1

StartsWith(s, p) == Len(p) <= Len(s) /\ SubSeq(s, 1, Len(p)) = p
EndsWith(s, p) == Len(p) <= Len(s) /\ SubSeq(s, Len(s) - Len(p) + 1, Len(s)) = p

\* s.strip(chars): drop leading and trailing characters that belong to cs
StripChars(s, cs) ==
    LET keep == {i \in 1..Len(s) : Ch(s, i) \notin cs}
    IN IF keep = {} THEN ""
       ELSE SubSeq(s, CHOOSE i \in keep : \A j \in keep : i <= j,
                      CHOOSE i \in keep : \A j \in keep : i >= j)

Strip(s) == StripChars(s, SpaceChars)

\* s.split(): the maximal runs of non-whitespace characters
SplitWs(s) ==
    LET IsSpaceAt(i) == i < 1 \/ i > Len(s) \/ Ch(s, i) \in SpaceChars
        starts == SortedSeq({i \in 1..Len(s) : ~IsSpaceAt(i) /\ IsSpaceAt(i - 1)})
        ends == SortedSeq({i \in 1..Len(s) : ~IsSpaceAt(i) /\ IsSpaceAt(i + 1)})
    IN [k \in 1..Len(starts) |-> SubSeq(s, starts[k], ends[k])]

\* re.split(r"\s+", s) for a stripped s: like s.split(), except that "" gives [""]
ReSplitWs(s) == IF s = "" THEN <<"">> ELSE SplitWs(s)

\* re.sub(r"[^...]+", "", s): keep only the characters that belong to cs
KeepChars(s, cs) == Concat([i \in 1..Len(s) |-> IF Ch(s, i) \in cs THEN Ch(s, i) ELSE ""])

\* s.count(c) for a one-character c
CountChar(s, c) == Cardinality({i \in 1..Len(s) : Ch(s, i) = c})

\* sep.join(parts)
Join(parts, sep) ==
    Concat([i \in 1..Len(parts) |-> IF i = 1 THEN parts[1] ELSE sep \o parts[i]])

\* set(q): the elements of a list
SeqRange(q) == {q[i] : i \in 1..Len(q)}

\* s.split(sep, 1): the text before and after the first occurrence of sep
SplitFirst(s, sep) ==
    LET k == Find(s, sep)
    IN IF k < 0 THEN <<s>>
       ELSE <<SubSeq(s, 1, k), SubSeq(s, k + Len(sep) + 1, Len(s))>>

\* str(n) for n >= 0
RECURSIVE Str(_)
Str(n) == IF n < 10 THEN Ch(DigitStr, n + 1)
          ELSE Str(n \div 10) \o Ch(DigitStr, (n % 10) + 1)

DigitVal(c) == (CHOOSE i \in 1..10 : Ch(DigitStr, i) = c) - 1

\* int(s) for a string of decimal digits
ParseInt(s) ==
    LET f[i \in 0..Len(s)] == IF i = 0 THEN 0 ELSE 10 * f[i-1] + DigitVal(Ch(s, i))
    IN f[Len(s)]

\* s.isdigit()
IsDigitStr(s) == Len(s) > 0 /\ \A i \in 1..Len(s) : IsDigit(Ch(s, i))

\* regex \b at the gap after the first p characters of s
WordBoundary(s, p) ==
    LET before == p >= 1 /\ IsWordChar(Ch(s, p))
        after == p < Len(s) /\ IsWordChar(Ch(s, p + 1))
    IN before # after

(***************************************************************************)
(* parse_pdfs.py: year helpers                                             *)
(***************************************************************************)
\* dt.datetime.now().year, the value when the module is loaded
CURRENT_YEAR == 2026

\* the 1-based start positions of the matches of \b((?:19|20)\d{2})\b in text
YearMatchStarts(text) ==
    {i \in 1..(Len(text) - 3) :
        /\ WordBoundary(text, i - 1)
        /\ Sub(text, i, 2) \in {"19", "20"}
        /\ IsDigit(Ch(text, i + 2)) /\ IsDigit(Ch(text, i + 3))
        /\ WordBoundary(text, i + 3)}

\* the years of re.findall, in text order, kept when in [1950, CURRENT_YEAR + 1]
_year_candidates(text) ==
    LET YearAt(i) == ParseInt(SubSeq(text, i, i + 3))
        kept == SortedSeq({i \in YearMatchStarts(text) :
                              1950 <= YearAt(i) /\ YearAt(i) <= CURRENT_YEAR + 1})
    IN [k \in 1..Len(kept) |-> YearAt(kept[k])]

\* the sort key (t[1], t[0]) of a (year, score) pair a is >= that of b
KeyGE(a, b) == a[2] > b[2] \/ (a[2] = b[2] /\ a[1] >= b[1])

\* the pool left as it was passed in: the sort skipped
UnsortedCands(pool) == pool

\* cands.sort(key=lambda t: (t[1], t[0]), reverse=True)
SortedCands(pool) ==
    LET Insert(sorted, x) ==
            LET k == Cardinality({j \in 1..Len(sorted) : KeyGE(sorted[j], x)})
            IN SubSeq(sorted, 1, k) \o <<x>> \o SubSeq(sorted, k + 1, Len(sorted))
        f[i \in 0..Len(pool)] == IF i = 0 THEN <<>> ELSE Insert(f[i-1], pool[i])
    IN f[Len(pool)]

MaxOf(S) == CHOOSE x \in S : \A y \in S : x >= y

\* Optional[int]: None for an empty pool
_pick_best_year_scored(pool) ==
    IF pool = <<>> THEN None
    ELSE LET sorted == SortedCands(pool)
             best_score == sorted[1][2]
             top == {sorted[j][1] : j \in {k \in 1..Len(sorted) : sorted[k][2] = best_score}}
         IN IF top # {} THEN Some(MaxOf(top)) ELSE Some(sorted[1][1])

MONTHS ==
    {"january", "february", "march", "april", "may", "june",
     "july", "august", "september", "october", "november", "december"}

_year_candidates_from_text(s) == _year_candidates(s)

MaxInt(a, b) == IF a >= b THEN a ELSE b

\* the low-trust rule firing on "doi" or "http" alone
ScoreDoiOrHttp(ln, y) ==
    LET low == Lower(ln)
    IN IF Contains(low, "downloaded by") THEN -999
       ELSE IF Contains(low, "doi") \/ Contains(low, "http") THEN 5
       ELSE IF \E mo \in MONTHS : Contains(low, mo) /\ Contains(low, Str(y)) THEN 95
       ELSE 10

_score_year_in_line(ln, y) ==
    LET low == Lower(ln)
        s0 == 10
        s1 == IF \E mo \in MONTHS : Contains(low, mo) /\ Contains(low, Str(y))
              THEN MaxInt(s0, 95) ELSE s0
        s2 == IF (Contains(low, "vol.") \/ Contains(low, "volume")
                  \/ Contains(low, "no.") \/ Contains(low, "issue"))
                 /\ Contains(low, Str(y))
              THEN MaxInt(s1, 85) ELSE s1
        s3 == IF (Contains(low, "copyright") \/ Contains(low, "©")) /\ Contains(low, Str(y))
              THEN MaxInt(s2, 80) ELSE s2
    IN IF Contains(low, "downloaded by") THEN -999
       ELSE IF Contains(low, "doi") /\ Contains(low, "http") THEN 5
       ELSE s3

(***************************************************************************)
(* parse_pdfs.py: first-page text, noise lines, section labels             *)
(***************************************************************************)
\* re.sub(r"\s{2,}", " ", s).strip(): a run of two or more whitespace characters
\* becomes one space, a single whitespace character stays as it is
_norm_spaces(s) ==
    LET IsSpaceAt(i) == Ch(s, i) \in SpaceChars
        \* what the i-th character leaves: a run of two or more leaves " " at its start
        Piece(i) ==
            IF ~IsSpaceAt(i) THEN Ch(s, i)
            ELSE IF IsSpaceAt(i - 1) THEN ""
            ELSE IF IsSpaceAt(i + 1) THEN " "
            ELSE Ch(s, i)
    IN Strip(Concat([i \in 1..Len(s) |-> Piece(i)]))

\* all characters of s from the i-th to the j-th satisfy the class cs
AllIn(s, i, j, cs) == \A k \in i..j : Ch(s, k) \in cs

\* re.match(r"^(abstract|keywords?|key words)\b", low)
StartsWithSectionWord(low) ==
    \E w \in {"abstract", "keywords", "keyword", "key words"} :
        StartsWith(low, w) /\ WordBoundary(low, Len(w))

\* the 1-based starts of the matches of \b(w1|w2|..)\b\s*[:,-] in low
LabelDelimStarts(low, words) ==
    {i \in 1..Len(low) :
        \E w \in words :
            /\ Sub(low, i, Len(w)) = w
            /\ WordBoundary(low, i - 1)
            /\ WordBoundary(low, i + Len(w) - 1)
            /\ \E d \in (i + Len(w))..Len(low) :
                /\ Ch(low, d) \in {":", ",", "-"}
                /\ AllIn(low, i + Len(w), d - 1, SpaceChars)}

\* re.search(r"\b\d{3}\s?\d{2}\b", s) or re.search(r"\b\d{5}(?:-\d{4})?\b", s)
HasPostalCode(s) ==
    \/ \E i \in 1..Len(s) : \E sp \in {0, 1} :
          /\ WordBoundary(s, i - 1)
          /\ i + 4 + sp <= Len(s)
          /\ AllIn(s, i, i + 2, DigitChars)
          /\ sp = 1 => Ch(s, i + 3) \in SpaceChars
          /\ AllIn(s, i + 3 + sp, i + 4 + sp, DigitChars)
          /\ WordBoundary(s, i + 4 + sp)
    \/ \E i \in 1..Len(s) :
          /\ WordBoundary(s, i - 1)
          /\ i + 4 <= Len(s)
          /\ AllIn(s, i, i + 4, DigitChars)
          /\ \/ WordBoundary(s, i + 4)
             \/ /\ Ch(s, i + 5) = "-"
                /\ i + 9 <= Len(s)
                /\ AllIn(s, i + 6, i + 9, DigitChars)
                /\ WordBoundary(s, i + 9)

\* re.search(r"\b\d{1,5}\s+[A-Za-z]{2,}\b", s)
HasStreetNumber(s) ==
    \E i \in 1..Len(s) : \E k \in 1..5 :
        /\ WordBoundary(s, i - 1)
        /\ i + k - 1 <= Len(s)
        /\ AllIn(s, i, i + k - 1, DigitChars)
        /\ \E a \in (i + k + 1)..Len(s) : \E e \in (a + 1)..Len(s) :
            /\ AllIn(s, i + k, a - 1, SpaceChars)
            /\ AllIn(s, a, e, LowerChars \cup UpperChars)
            /\ WordBoundary(s, e)

AffiliationWords ==
    {"university", "department", "faculty", "institute", "laboratory", "centre", "center"}

CountryWords ==
    {"republic", "usa", "u.s.", "uk", "germany", "france", "italy", "spain", "china",
     "japan", "canada", "australia", "turkey", "türkiye", "poland"}

HasDigit(s) == \E i \in 1..Len(s) : IsDigit(Ch(s, i))

\* the "too many commas" rule of _looks_like_noise_line
ManyCommas(s) == CountChar(s, ",") >= 3 /\ Len(SplitWs(s)) > 8

\* the affiliation rule asking for a country name, a digit not being enough
AffiliationNeedsCountry(s, low) ==
    /\ \E k \in AffiliationWords : Contains(low, k)
    /\ Contains(s, ",")
    /\ \E c \in CountryWords : Contains(low, c)

\* the affiliation rule of _looks_like_noise_line
AffiliationBlock(s, low) ==
    /\ \E k \in AffiliationWords : Contains(low, k)
    /\ Contains(s, ",")
    /\ (HasDigit(s) \/ \E c \in CountryWords : Contains(low, c))

\* the rules of _looks_like_noise_line on s = _norm_spaces(s0) and low = s.lower().strip()
NoiseRules(s, low) ==
    \/ s = ""
    \/ Contains(low, "http") \/ Contains(low, "doi")
    \/ Contains(low, "licensed under") \/ Contains(low, "creativecommons")
    \/ Contains(low, "copyright") \/ Contains(low, "rights reserved")
    \/ Contains(low, "proceedings") \/ Contains(low, "edited by")
    \/ Contains(low, "peer reviewed")
    \/ Contains(low, "author:")
    \/ StartsWith(low, "programming language") \/ StartsWith(low, "nature of problem")
    \/ Contains(low, "these authors contributed equally")
    \/ StartsWithSectionWord(low)
    \/ (LabelDelimStarts(low, {"abstract", "keywords", "keyword"}) # {}
        /\ Find(low, "abstract") < 30)
    \/ Contains(s, "@")
    \/ HasPostalCode(s)
    \/ (HasStreetNumber(s) /\ Contains(s, ","))
    \/ ManyCommas(s)
    \/ AffiliationBlock(s, low)

_looks_like_noise_line(s0) == NoiseRules(_norm_spaces(s0), Strip(Lower(_norm_spaces(s0))))

MinOf(S) == CHOOSE x \in S : \A y \in S : x <= y

\* the rules of _is_section_label_line on low = ln.strip().lower()
SectionLabelRules(low, label) ==
    /\ low # ""
    /\ \/ (StartsWith(low, label) /\ WordBoundary(low, Len(label)))
       \/ \E i \in LabelDelimStarts(low, {label}) : i - 1 < 30

_is_section_label_line(ln, label) == SectionLabelRules(Strip(Lower(ln)), label)

(***************************************************************************)
(* parse_pdfs.py: title fallback from the first page                       *)
(***************************************************************************)
\* the 1-based starts of the matches of re.search(r"\.\s+in\s+", s, re.IGNORECASE)
DotInStarts(s) ==
    {i \in 1..Len(s) :
        /\ Ch(s, i) = "."
        /\ \E a \in (i + 2)..Len(s) :
            /\ AllIn(s, i + 1, a - 1, SpaceChars)
            /\ Lower(Sub(s, a, 2)) = "in"
            /\ Ch(s, a + 2) \in SpaceChars}

\* parts[-1]
LastPart(parts) == parts[Len(parts)]

\* s[:m.start()].strip() when ". in " is found, s otherwise
BeforeDotIn(s) ==
    IF DotInStarts(s) # {} THEN Strip(SubSeq(s, 1, MinOf(DotInStarts(s)) - 1)) ELSE s

\* s2.split(".:", 1)[-1].strip() when ".:" is in s2, s2 otherwise
AfterDotColon(s2) ==
    IF Contains(s2, ".:") THEN Strip(LastPart(SplitFirst(s2, ".:"))) ELSE s2

\* the candidate of one "cite as:" line (the loop body of extract_title_from_cite_as)
CiteAsCandidate(ln) ==
    StripChars(AfterDotColon(BeforeDotIn(Strip(LastPart(SplitFirst(ln, ":"))))),
               {" ", ".", ";", "-"})

\* the sanity test of extract_title_from_cite_as on a candidate
TitleLike(s2) == Len(SplitWs(s2)) >= 4 /\ ~_looks_like_noise_line(s2)

\* the candidate of the first line of `ok`, None when there is none
FirstCandidate(lines, ok) ==
    IF ok = {} THEN None ELSE Some(CiteAsCandidate(lines[MinOf(ok)]))

\* Optional[str]: the candidate of the first "cite as:" line whose candidate is title-like
extract_title_from_cite_as(lines) ==
    FirstCandidate(lines, {i \in 1..Len(lines) :
                              /\ Contains(Lower(lines[i]), "cite as:")
                              /\ TitleLike(CiteAsCandidate(lines[i]))})

\* the score of _title_score on s = _norm_spaces(s0), with its word count and letters
ScoreRules(s, n_words, letters) ==
    LET base == (IF Len(s) < 200 THEN Len(s) ELSE 200)
                + 20 * (IF n_words < 20 THEN n_words ELSE 20)
        caps == IF letters # "" /\ Upper(letters) = letters THEN 200 ELSE 0
        series == IF Contains(Lower(s), "cfd with opensource software") THEN 500 ELSE 0
        colon == IF Contains(s, ":") THEN 30 ELSE 0
        hyphen == IF Contains(s, "-") THEN 15 ELSE 0
    IN IF s = "" THEN -1000000000
       ELSE IF _looks_like_noise_line(s) THEN -1000000
       ELSE IF n_words < 4 THEN -1000
       ELSE base - caps - series + colon + hyphen

NormScore(s) == ScoreRules(s, Len(SplitWs(s)), KeepChars(s, LowerChars \cup UpperChars))

_title_score(s0) == NormScore(_norm_spaces(s0))

\* low is an Abstract / Keywords / Key words label line
SectionStartRules(low) ==
    \/ SectionLabelRules(low, "abstract")
    \/ SectionLabelRules(low, "keywords")
    \/ SectionLabelRules(low, "key words")

IsSectionStart(ln) == SectionStartRules(Strip(Lower(ln)))

\* extract_title_from_pdf_lines lines 309-326: of the first 80 lines, normalized, the
\* non-empty ones met before the first Abstract/Keywords label line, 35 at most
TrimmedLines(lines) ==
    LET n == IF Len(lines) < 80 THEN Len(lines) ELSE 80
        norm == [i \in 1..n |-> _norm_spaces(lines[i])]
        NonEmpty(ln) == ln # ""
        breaks == {i \in 1..n : norm[i] # "" /\ IsSectionStart(norm[i])}
        kept == SelectSeq(SubSeq(norm, 1, IF breaks = {} THEN n ELSE MinOf(breaks) - 1),
                          NonEmpty)
    IN SubSeq(kept, 1, IF Len(kept) < 35 THEN Len(kept) ELSE 35)

\* the text of the span of `span` lines starting at line i
Chunk(lines, i, span) == _norm_spaces(Join(SubSeq(lines, i, i + span - 1), " "))

\* extract_title_from_pdf_lines lines 345-356: the tests on the chunk, low its lowercase
\* and n_words its word count
ChunkRules(chunk, low, n_words) ==
    /\ \A x \in {"author:", "peer reviewed by:", "licensed under", "cite as:"} :
          ~Contains(low, x)
    /\ ~SectionLabelRules(Strip(low), "abstract")
    /\ ~SectionLabelRules(Strip(low), "keywords")
    /\ n_words >= 4 /\ n_words <= 35
    /\ Len(chunk) <= 220

ChunkSurvives(chunk) == ChunkRules(chunk, Lower(chunk), Len(SplitWs(chunk)))

\* extract_title_from_pdf_lines lines 337-358: the span is scored
SpanSurvives(lines, i, span) ==
    /\ ~_looks_like_noise_line(lines[i])
    /\ i + span <= Len(lines) + 1
    /\ ChunkSurvives(Chunk(lines, i, span))

\* best = (title, score) replaced also by an equal score: the last maximum wins
KeepBestOrEqual(best, chunk, survives, sc) ==
    IF survives /\ sc >= best[2] THEN <<Some(chunk), sc>> ELSE best

\* lines 360-362: best = (title, score) is replaced only by a strictly greater score
KeepBest(best, chunk, survives, sc) ==
    IF survives /\ sc > best[2] THEN <<Some(chunk), sc>> ELSE best

ScoreChunk(best, chunk, survives) == KeepBest(best, chunk, survives, _title_score(chunk))

\* line 333 and lines 340-362 for one span: best after the k-th span of the scan alone,
\* the scan going through i = 0..N-1 and, for each i, span = 1, 2, 3
SpanAlone(lines, k) ==
    ScoreChunk(<<None, -1000000000>>,
               Chunk(lines, ((k - 1) \div 3) + 1, ((k - 1) % 3) + 1),
               SpanSurvives(lines, ((k - 1) \div 3) + 1, ((k - 1) % 3) + 1))

\* best after a stretch of the scan that left `best`, followed by a stretch that,
\* scanned alone, leaves `later`
ScanThen(best, later) ==
    IF later[1] = None THEN best ELSE KeepBest(best, later[1][1], TRUE, later[2])

\* best after the spans lo..hi of the scan, scanned alone
RECURSIVE ScanRange(_, _, _)
ScanRange(lines, lo, hi) ==
    IF lo = hi THEN SpanAlone(lines, lo)
    ELSE ScanThen(ScanRange(lines, lo, (lo + hi) \div 2),
                  ScanRange(lines, ((lo + hi) \div 2) + 1, hi))

\* extract_title_from_pdf_lines lines 333-364 on the non-empty trimmed lines: best[0]
BestSpan(lines) == ScanRange(lines, 1, 3 * Len(lines))[1]

\* lines 303-307 and 328-364: the cite-as title when there is one, else the best span
PickTitle(cited, trimmed) ==
    IF cited # None /\ cited[1] # "" THEN cited
    ELSE IF trimmed = <<>> THEN None
    ELSE BestSpan(trimmed)

\* Optional[str]
extract_title_from_pdf_lines(lines) ==
    PickTitle(extract_title_from_cite_as(lines), TrimmedLines(lines))

\* the tests of _is_good_title on s = _norm_spaces(s0)
GoodTitleRules(s) ==
    /\ s # ""
    /\ ~_looks_like_noise_line(s)
    /\ ~Contains(Lower(s), "cfd with opensource software")
    /\ ~IsSectionStart(s)
    /\ CountChar(s, ",") < 3
    /\ Len(SplitWs(s)) <= 35 /\ Len(s) <= 220

_is_good_title(s0) == GoodTitleRules(_norm_spaces(s0))

(***************************************************************************)
(* parse_pdfs.py: label-anchored author fallback                           *)
(***************************************************************************)
\* lower, strip, every character outside [a-z\s.\-'] replaced by a space, _norm_spaces
_norm_person(s0) ==
    LET s == Strip(Lower(s0))
        allowed == LowerChars \cup SpaceChars \cup {".", "-", "'"}
    IN _norm_spaces(Concat([i \in 1..Len(s) |-> IF Ch(s, i) \in allowed THEN Ch(s, i) ELSE " "]))

\* extract_block_after_label lines 411-418: the 1-based indexes of the label lines
LabelLines(lines, label) ==
    {i \in 1..Len(lines) :
        \/ StartsWith(Strip(Lower(lines[i])), Lower(label))
        \/ Strip(Lower(lines[i])) = StripChars(Lower(label), {":"})}

\* extract_block_after_label lines 428-434: line ln ends the block
BlockStops(ln) ==
    LET low == Lower(Strip(ln))
    IN \/ Strip(ln) = ""
       \/ \E k \in {"peer reviewed by", "licensed under", "cite as:",
                    "cfd with opensource software"} : Contains(low, k)
       \/ (EndsWith(low, ":") /\ Len(low) < 40)

\* lines 422-440: <<out, stopped>> after one more line ln
BlockStep(p, ln) ==
    IF p[2] THEN p
    ELSE IF BlockStops(ln) THEN <<p[1], TRUE>>
    ELSE <<Append(p[1], _norm_spaces(Strip(ln))), Len(p[1]) + 1 >= 12>>

\* the block collected after the label line of 1-based index idx
BlockAfter(lines, idx) ==
    LET f[k \in 0..(Len(lines) - idx)] ==
            IF k = 0 THEN <<<<>>, FALSE>> ELSE BlockStep(f[k-1], lines[idx + k])
    IN f[Len(lines) - idx][1]

FirstBlock(lines, found) == IF found = {} THEN <<>> ELSE BlockAfter(lines, MinOf(found))

extract_block_after_label(lines, label) == FirstBlock(lines, LabelLines(lines, label))

\* filter_name_lines lines 449-468: the line looks like a person name
IsNameLine(ln) ==
    /\ ~_looks_like_noise_line(ln)
    /\ ~HasDigit(ln)
    /\ ~Contains(Lower(ln), "university")
    /\ ~Contains(ln, "@")
    /\ 1 <= Len(SplitWs(ln)) /\ Len(SplitWs(ln)) <= 5
    /\ Len(KeepChars(ln, LowerChars \cup UpperChars)) >= 4

\* lines 470-476: <<out, seen>> after one more line ln whose person key is k
NameStep(p, ln, k) ==
    IF IsNameLine(ln) /\ k # "" /\ k \notin p[2]
    THEN <<Append(p[1], ln), p[2] \cup {k}>>
    ELSE p

filter_name_lines(lines) ==
    LET f[i \in 0..Len(lines)] ==
            IF i = 0 THEN <<<<>>, {}>>
            ELSE NameStep(f[i-1], lines[i], _norm_person(lines[i]))
    IN f[Len(lines)][1]

\* fallback_authors_from_pdf line 489: the normalized names of the reviewers
PeerSet(lines) ==
    {_norm_person(x) :
        x \in SeqRange(filter_name_lines(extract_block_after_label(lines, "peer reviewed by:")))}

\* fallback_authors_from_pdf lines 492-495: the authors whose normalized form is not
\* in drop, in order
SelectNotIn(q, drop) ==
    LET Kept(a) == _norm_person(a) \notin drop
    IN SelectSeq(q, Kept)

\* fallback_authors_from_pdf line 497: return cleaned if cleaned else authors
KeepCleaned(authors, cleaned) == IF cleaned # <<>> THEN Some(cleaned) ELSE Some(authors)

\* lines 485-497 on the filtered authors and the peer set
WithoutPeers(authors, peers) ==
    IF authors = <<>> THEN None ELSE KeepCleaned(authors, SelectNotIn(authors, peers))

\* fallback_authors_from_pdf lines 483-497 on the lines of the first page:
\* Optional[List[str]]
FallbackAuthors(lines) ==
    WithoutPeers(filter_name_lines(extract_block_after_label(lines, "author:")), PeerSet(lines))

(***************************************************************************)
(* parse_pdfs.py: what a PDF file gives.  A file is a record                *)
(*   path  : its path                                                      *)
(*   fail  : the step of parse_pdf that raises for it, "none" when none    *)
(*           does: "grobid" (the service call), "tei" (ET.fromstring),     *)
(*           "year_text", "title_text", "authors_text" (PdfReader raising  *)
(*           in the read made by that step)                                *)
(*   tei   : the header the service returns                                *)
(*   pages : per page, ok (extract_text does not raise) and the lines of   *)
(*           the extracted text                                            *)
(***************************************************************************)
\* the lines of "\n".join(text_parts).splitlines() for the first `pages` pages; a page
\* whose extract_text raises is skipped
PagesTextLines(doc, pages) ==
    LET n == IF pages < Len(doc.pages) THEN pages ELSE Len(doc.pages)
        f[i \in 0..n] ==
            IF i = 0 THEN <<>>
            ELSE IF doc.pages[i].ok THEN f[i-1] \o doc.pages[i].lines
            ELSE f[i-1]
    IN f[n]

\* best replaced only by a strictly greater score: on a tie the first year met stays
BetterYearFirstWins(best, y, sc) == IF sc > best[2] THEN <<y, sc>> ELSE best

\* fallback_year_from_pdf_first_pages lines 115-116: best after year y scored sc
BetterYear(best, y, sc) ==
    IF sc > best[2] \/ (sc = best[2] /\ y > best[1]) THEN <<y, sc>> ELSE best

\* lines 113-116: best after the years ys of the line ln, in order
ScanYears(best, ln, ys) ==
    LET f[i \in 0..Len(ys)] ==
            IF i = 0 THEN best
            ELSE BetterYear(f[i-1], ys[i], _score_year_in_line(ln, ys[i]))
    IN f[Len(ys)]

ScanLineYears(best, ln) == ScanYears(best, ln, _year_candidates_from_text(ln))

\* lines 109-112: a line that is empty once stripped is skipped
ScanLine(best, ln) == IF ln = "" THEN best ELSE ScanLineYears(best, ln)

\* line 118
BestYear(best) == IF best[2] > 0 THEN Some(best[1]) ELSE None

\* fallback_year_from_pdf_first_pages lines 104-118 on the text lines: Optional[int]
FallbackYear(lines) ==
    LET f[i \in 0..Len(lines)] ==
            IF i = 0 THEN <<0, -1000000000>> ELSE ScanLine(f[i-1], Strip(lines[i]))
    IN IF \A i \in 1..Len(lines) : Strip(lines[i]) = "" THEN None
       ELSE BestYear(f[Len(lines)])

fallback_year_from_pdf_first_pages(doc, pages) == FallbackYear(PagesTextLines(doc, pages))

\* the normalized non-empty lines of the first `pages` pages
pdf_first_pages_text_lines(doc, pages) ==
    LET raw == PagesTextLines(doc, pages)
        NonEmpty(ln) == ln # ""
    IN SelectSeq([i \in 1..Len(raw) |-> _norm_spaces(raw[i])], NonEmpty)

fallback_authors_from_pdf(doc) == FallbackAuthors(pdf_first_pages_text_lines(doc, 1))

(***************************************************************************)
(* parse_pdfs.py: the TEI header.  A header is a record                     *)
(*   title         : text of titleStmt/title                               *)
(*   authors       : the analytic author elements, each has_pers,          *)
(*                   forenames, surname                                    *)
(*   pub_dates     : the date elements of the header outside the imprint,  *)
(*                   each with its 'when' attribute and its text           *)
(*   has_monogr, monogr_title, meeting, bibl_scopes, imprint_dates :       *)
(*                   the monogr element and what it holds                  *)
(*   note          : the rest of the header's text                         *)
(* The text nodes of an element are taken to be separated by whitespace.   *)
(***************************************************************************)
\* _text(el): " ".join("".join(el.itertext()).split())
_text(s) == Join(SplitWs(s), " ")

_norm_name(s0) ==
    LET s == _norm_spaces(s0)
    IN IF s = "" THEN ""
       ELSE IF \E x \in {"university", "department", "republic", "rights", "permission",
                         "http", "www"} : Contains(Lower(s), x) THEN ""
       ELSE IF HasDigit(s) THEN ""
       ELSE IF Len(SplitWs(s)) > 6 THEN ""
       ELSE s

\* parse_title_authors_year_from_header_tei lines 620-625: the name of one author element
AuthorName(a) ==
    LET NonEmpty(t) == t # ""
        fs == SelectSeq([i \in 1..Len(a.forenames) |-> _text(a.forenames[i])], NonEmpty)
    IN _norm_name(Strip(Join(Append(fs, _text(a.surname)), " ")))

\* lines 616-637: <<uniq, seen>> after one more author element with the name nm
UniqStep(p, has_pers, nm) ==
    IF has_pers /\ nm # "" /\ Lower(nm) \notin p[2]
    THEN <<Append(p[1], nm), p[2] \cup {Lower(nm)}>>
    ELSE p

\* lines 614-637: the names, de-duplicated by their lowercased form, in order
TeiAuthors(tei) ==
    LET f[i \in 0..Len(tei.authors)] ==
            IF i = 0 THEN <<<<>>, {}>>
            ELSE UniqStep(f[i-1], tei.authors[i].has_pers, AuthorName(tei.authors[i]))
    IN f[Len(tei.authors)][1]

\* the years ys, each paired with sc
PairsOf(ys, sc) == [i \in 1..Len(ys) |-> <<ys[i], sc>>]

\* the pair of a 'when' attribute whose first four characters are digits
WhenPairs(when, sc) ==
    IF Len(when) >= 4 /\ IsDigitStr(SubSeq(when, 1, 4))
    THEN << <<ParseInt(SubSeq(when, 1, 4)), sc>> >>
    ELSE <<>>

\* the pairs one date element adds: its 'when' prefix at whenScore, the years of its
\* text at textScore
DatePairs(d, whenScore, textScore) ==
    WhenPairs(Strip(d.when), whenScore) \o PairsOf(_year_candidates(_text(d.text)), textScore)

\* the concatenation of the lists of a list
Flatten(qs) == IF Len(qs) = 0 THEN <<>> ELSE ConcatRange(qs, 1, Len(qs))

\* the years of a text, each paired with sc
TextPairs(text, sc) == PairsOf(_year_candidates(_text(text)), sc)

\* _text(monogr)
MonogrText(tei) ==
    Join(<<tei.monogr_title>>
         \o (IF tei.meeting # None THEN <<tei.meeting[1]>> ELSE <<>>)
         \o tei.bibl_scopes
         \o [i \in 1..Len(tei.imprint_dates) |-> tei.imprint_dates[i].text], " ")

\* _text(header)
HeaderText(tei) ==
    Join(<<tei.title>>
         \o [i \in 1..Len(tei.pub_dates) |-> tei.pub_dates[i].text]
         \o Flatten([i \in 1..Len(tei.authors) |->
                        tei.authors[i].forenames \o <<tei.authors[i].surname>>])
         \o (IF tei.has_monogr THEN <<MonogrText(tei)>> ELSE <<>>)
         \o <<tei.note>>, " ")

\* lines 640-682: the pool of (year, score) pairs, scopes (A) to (F)
TeiScored(tei) ==
    LET imprint == IF tei.has_monogr THEN tei.imprint_dates ELSE <<>>
        dates == tei.pub_dates \o imprint
    IN Flatten([i \in 1..Len(imprint) |-> DatePairs(imprint[i], 100, 95)])
       \o Flatten([i \in 1..Len(dates) |-> DatePairs(dates[i], 90, 85)])
       \o (IF tei.has_monogr THEN TextPairs(MonogrText(tei), 75) ELSE <<>>)
       \o (IF tei.has_monogr
           THEN Flatten([i \in 1..Len(tei.bibl_scopes) |-> TextPairs(tei.bibl_scopes[i], 70)])
           ELSE <<>>)
       \o (IF tei.has_monogr /\ tei.meeting # None THEN TextPairs(tei.meeting[1], 40) ELSE <<>>)
       \o TextPairs(HeaderText(tei), 20)

\* the (title, authors, year) returned for a header that parses
parse_title_authors_year_from_header_tei(tei) ==
    [title |-> _text(tei.title),
     authors |-> TeiAuthors(tei),
     year |-> _pick_best_year_scored(TeiScored(tei))]

(***************************************************************************)
(* make_bibtex.py: citation key, entry type, fields, rendering             *)
(***************************************************************************)
_BIBTEX_ESC ==
    << <<"\\", "\\\\">>, <<"{", "\\{">>, <<"}", "\\}">>, <<"%", "\\%">>,
       <<"$", "\\$">>, <<"&", "\\&">>, <<"#", "\\#">>, <<"_", "\\_">>,
       <<"~", "\\~{}">>, <<"^", "\\^{}">> >>

\* table.get(ch, ch) for a table of <<char, replacement>> pairs
TableGet(table, c) ==
    IF \E k \in 1..Len(table) : table[k][1] = c
    THEN table[CHOOSE k \in 1..Len(table) : table[k][1] = c][2]
    ELSE c

TableMap(table, s) ==
    Concat([i \in 1..Len(s) |-> TableGet(table, Ch(s, i))])

bibtex_escape(s) == IF s = "" THEN "" ELSE TableMap(_BIBTEX_ESC, s)

\* the repl table of _fold_ascii; its six entries outside Latin-1 (g breve, dotless i,
\* dotted I, s cedilla) cannot be written in a string here and are left out
FoldTable ==
    << <<"ä", "a">>, <<"Ä", "a">>, <<"ö", "o">>, <<"Ö", "o">>, <<"ü", "u">>, <<"Ü", "u">>,
       <<"ß", "ss">>, <<"ç", "c">>, <<"Ç", "c">>,
       <<"é", "e">>, <<"è", "e">>, <<"ê", "e">>, <<"ë", "e">>,
       <<"á", "a">>, <<"à", "a">>, <<"â", "a">>, <<"ã", "a">>,
       <<"ó", "o">>, <<"ò", "o">>, <<"ô", "o">>, <<"õ", "o">>,
       <<"ú", "u">>, <<"ù", "u">>, <<"û", "u">>, <<"ñ", "n">> >>

_fold_ascii(s) == TableMap(FoldTable, s)

\* fold, lowercase, then re.sub(r"[^a-z0-9]+", "", s)
_normalize_key_token(s) == KeepChars(Lower(_fold_ascii(s)), LowerChars \cup DigitChars)

_STOPWORDS ==
    {"a", "an", "and", "as", "at", "by", "for", "from", "in", "into", "of", "on",
     "or", "the", "to", "with", "without", "via", "using"}

\* one title word with re.sub(r"[^\w]+", "", fold(w).lower())
TitleWordKey(w) == KeepChars(Lower(_fold_ascii(w)), LowerChars \cup UpperChars \cup DigitChars \cup {"_"})

_first_significant_title_word(title) ==
    LET ws == ReSplitWs(Strip(title))
        ok == {i \in 1..Len(ws) : TitleWordKey(ws[i]) # "" /\ TitleWordKey(ws[i]) \notin _STOPWORDS}
    IN IF ok = {} THEN "work"
       ELSE TitleWordKey(ws[CHOOSE i \in ok : \A j \in ok : i <= j])

_last_name_from_author(author) ==
    LET a == Strip(author)
        parts == ReSplitWs(a)
    IN IF a = "" THEN "anon"
       ELSE IF Contains(a, ",") THEN _normalize_key_token(SplitFirst(a, ",")[1])
       ELSE _normalize_key_token(parts[Len(parts)])

\* " and ".join of the stripped non-empty authors
_bibtex_author_field(authors) ==
    LET f[i \in 0..Len(authors)] ==
            IF i = 0 THEN <<>>
            ELSE IF Strip(authors[i]) = "" THEN f[i-1]
            ELSE Append(f[i-1], Strip(authors[i]))
    IN Join(f[Len(authors)], " and ")

\* re.search(r"\b(tm|tp|tr)[-_]?\d{3,}\b", fn)
ReportNumberIn(fn) ==
    \E i \in 1..Len(fn) :
        /\ WordBoundary(fn, i - 1)
        /\ Sub(fn, i, 2) \in {"tm", "tp", "tr"}
        /\ \E sep \in {0, 1} :
            /\ sep = 1 => Ch(fn, i + 2) \in {"-", "_"}
            /\ \E e \in (i + 1 + sep + 3)..Len(fn) :
                /\ \A k \in (i + 2 + sep)..e : IsDigit(Ch(fn, k))
                /\ WordBoundary(fn, e)

\* the conference rule looked at before the thesis rules
GuessConferenceFirst(title, file_name) ==
    LET t == _fold_ascii(Lower(title))
        fn == _fold_ascii(Lower(file_name))
    IN IF Contains(t, "proceedings") \/ Contains(t, "conference")
          \/ Contains(t, "symposium") \/ Contains(t, "workshop")
         THEN "inproceedings"
       ELSE IF Contains(t, "phd") \/ Contains(t, "dissertation") \/ Contains(t, "doctoral")
         THEN "phdthesis"
       ELSE IF Contains(t, "master") \/ Contains(t, "msc") \/ Contains(t, "m.sc")
         THEN "mastersthesis"
       ELSE IF Contains(t, "thesis")
         THEN "phdthesis"
       ELSE IF Contains(t, "technical report") \/ Contains(t, "tech report")
               \/ Contains(t, "nasa/tm") \/ Contains(t, "nasa/tp")
         THEN "techreport"
       ELSE IF ReportNumberIn(fn) \/ Contains(t, "report")
         THEN "techreport"
       ELSE "misc"

\* guess_entry_type lines 145-168
guess_entry_type(title, file_name) ==
    LET t == _fold_ascii(Lower(title))
        fn == _fold_ascii(Lower(file_name))
    IN IF Contains(t, "phd") \/ Contains(t, "dissertation") \/ Contains(t, "doctoral")
         THEN "phdthesis"
       ELSE IF Contains(t, "master") \/ Contains(t, "msc") \/ Contains(t, "m.sc")
         THEN "mastersthesis"
       ELSE IF Contains(t, "thesis")
         THEN "phdthesis"
       ELSE IF Contains(t, "proceedings") \/ Contains(t, "conference")
               \/ Contains(t, "symposium") \/ Contains(t, "workshop")
         THEN "inproceedings"
       ELSE IF Contains(t, "technical report") \/ Contains(t, "tech report")
               \/ Contains(t, "nasa/tm") \/ Contains(t, "nasa/tp")
         THEN "techreport"
       ELSE IF ReportNumberIn(fn) \/ Contains(t, "report")
         THEN "techreport"
       ELSE "misc"

order_by_type(entry_type) ==
    CASE entry_type = "article" ->
           <<"author", "title", "journal", "year", "volume", "number", "pages", "doi", "url", "note">>
      [] entry_type = "inproceedings" ->
           <<"author", "title", "booktitle", "year", "pages", "doi", "url", "note">>
      [] entry_type = "techreport" ->
           <<"author", "title", "institution", "number", "year", "doi", "url", "note">>
      [] entry_type \in {"phdthesis", "mastersthesis"} ->
           <<"author", "title", "school", "year", "url", "note">>
      [] OTHER ->
           <<"author", "title", "year", "howpublished", "url", "note">>

\* the field names make_bibtex_record can set, in sorted() order
SortedFieldNames == <<"author", "file", "howpublished", "note", "title", "year">>

\* fields.get(k, "")
FieldGet(fields, k) == IF k \in DOMAIN fields THEN fields[k] ELSE ""

\* dict assignment fields[k] = v
FieldSet(fields, k, v) == [x \in DOMAIN fields \cup {k} |-> IF x = k THEN v ELSE fields[x]]

\* the rendered lines of one entry, joined with "\n"
format_bibtex(entry_type, key, fields) ==
    LET order == order_by_type(entry_type)
        FieldLine(k) == "  " \o k \o " = {" \o bibtex_escape(Strip(FieldGet(fields, k))) \o "},"
        ordered[i \in 0..Len(order)] ==
            IF i = 0 THEN <<>>
            ELSE IF Strip(FieldGet(fields, order[i])) # "" THEN Append(ordered[i-1], order[i])
            ELSE ordered[i-1]
        used == SeqRange(ordered[Len(order)])
        extra[i \in 0..Len(SortedFieldNames)] ==
            IF i = 0 THEN ordered[Len(order)]
            ELSE LET k == SortedFieldNames[i]
                 IN IF k \in DOMAIN fields /\ k \notin used /\ Strip(FieldGet(fields, k)) # ""
                    THEN Append(extra[i-1], k)
                    ELSE extra[i-1]
        names == extra[Len(SortedFieldNames)]
        body == [i \in 1..Len(names) |->
                    IF i = Len(names)
                    THEN SubSeq(FieldLine(names[i]), 1, Len(FieldLine(names[i])) - 1)
                    ELSE FieldLine(names[i])]
    IN Join(<<"@" \o entry_type \o "{" \o key \o ",">> \o body \o <<"}">>, "\n")

\* isinstance(year, int): the year option holds an integer
YearIsInt(year) == year # None

\* make_bibtex_record lines 213-220: the key before the uniqueness step
BaseKey(rec) ==
    LET title == Strip(rec.title)
        first_author == IF rec.authors # <<>> THEN rec.authors[1] ELSE ""
        ln == _last_name_from_author(first_author)
        base_key == IF ln # "" THEN ln ELSE "anon"
        y == IF YearIsInt(rec.year) THEN Str(rec.year[1]) ELSE "nodate"
        w == _first_significant_title_word(title)
        key == _normalize_key_token(base_key \o y \o w)
    IN IF key = "" THEN "ref" \o y ELSE key

\* used_keys.get(key, 0)
UsedGet(uk, key) == IF key \in DOMAIN uk THEN uk[key] ELSE 0

\* the suffix written as the number of earlier uses instead of the occurrence index
UniqueKeyOffByOne(key, n) == IF n > 0 THEN key \o Str(n) ELSE key

\* make_bibtex_record lines 225-226: the emitted key, n earlier uses of the base key
UniqueKey(key, n) == IF n > 0 THEN key \o Str(n + 1) ELSE key

\* the fields with the title and the file path stored whether empty or not
BuildFieldsKeepEmpty(rec, entry_type) ==
    LET a_field == _bibtex_author_field(rec.authors)
        f0 == [x \in {} |-> ""]
        f1 == IF a_field # "" THEN FieldSet(f0, "author", a_field) ELSE f0
        f2 == FieldSet(f1, "title", Strip(rec.title))
        f3 == IF YearIsInt(rec.year) THEN FieldSet(f2, "year", Str(rec.year[1])) ELSE f2
        f4 == FieldSet(f3, "note",
                       IF Strip(rec.file_name) # "" THEN "Local PDF: " \o Strip(rec.file_name)
                       ELSE "Local PDF")
        f5 == FieldSet(f4, "file", Strip(rec.file_path))
    IN IF entry_type = "misc" /\ "howpublished" \notin DOMAIN f5
       THEN FieldSet(f5, "howpublished", "PDF")
       ELSE f5

\* make_bibtex_record lines 228-244
BuildFields(rec, entry_type) ==
    LET title == Strip(rec.title)
        file_name == Strip(rec.file_name)
        file_path == Strip(rec.file_path)
        a_field == _bibtex_author_field(rec.authors)
        f0 == [x \in {} |-> ""]
        f1 == IF a_field # "" THEN FieldSet(f0, "author", a_field) ELSE f0
        f2 == IF title # "" THEN FieldSet(f1, "title", title) ELSE f1
        f3 == IF YearIsInt(rec.year) THEN FieldSet(f2, "year", Str(rec.year[1])) ELSE f2
        f4 == FieldSet(f3, "note",
                       IF file_name # "" THEN "Local PDF: " \o file_name ELSE "Local PDF")
        f5 == IF file_path # "" THEN FieldSet(f4, "file", file_path) ELSE f4
    IN IF entry_type = "misc" /\ "howpublished" \notin DOMAIN f5
       THEN FieldSet(f5, "howpublished", "PDF")
       ELSE f5

\* the record make_bibtex_record returns for rec when used_keys is uk
make_bibtex_record(rec, uk) ==
    LET entry_type == guess_entry_type(Strip(rec.title), Strip(rec.file_name))
        key == UniqueKey(BaseKey(rec), UsedGet(uk, BaseKey(rec)))
        fields == BuildFields(rec, entry_type)
    IN [file_path |-> Strip(rec.file_path),
        file_name |-> Strip(rec.file_name),
        title |-> Strip(rec.title),
        authors |-> rec.authors,
        year |-> rec.year,
        bibtex_type |-> entry_type,
        bibtex_key |-> key,
        fields |-> fields,
        bibtex |-> format_bibtex(entry_type, key, fields)]

\* make_bibtex_record lines 223-224: used_keys after the call
UsedKeysAfter(rec, uk) ==
    [k \in DOMAIN uk \cup {BaseKey(rec)} |->
        IF k = BaseKey(rec) THEN UsedGet(uk, k) + 1 ELSE uk[k]]

(***************************************************************************)
(* make_bibtex.process_root: one batch (one root, one used_keys mapping)   *)
(***************************************************************************)
MaxRecords == 3

\* an entry of the 'pdfs' list; isDict is FALSE for an entry that is not a JSON object
Doc(title, authors, year, file_name) ==
    [isDict |-> TRUE, title |-> title, authors |-> authors, year |-> year,
     file_name |-> file_name, file_path |-> IF file_name = "" THEN "" ELSE "/r/" \o file_name]

NotADict ==
    [isDict |-> FALSE, title |-> "", authors |-> <<>>, year |-> None,
     file_name |-> "", file_path |-> ""]

BibDocs ==
    { Doc("Flow", <<"Smith, John">>, Some(2020), "a.pdf"),
      Doc("Flow2 of the wake", <<"Smith, John">>, Some(2020), "NASA-TM-2020123.pdf"),
      Doc("The Flow: a Doctoral Dissertation", <<"John Smith", " ">>, Some(2020), "c.pdf"),
      Doc("", <<>>, None, ""),
      Doc("Of the", <<",">>, None, "e_{1}.pdf"),
      NotADict }

\* all sequences over S of length at most n
SeqsUpTo(S, n) == UNION {[1..k -> S] : k \in 0..n}

PickIdle == cands = <<>> /\ picked = None
ScoreIdle == line = "" /\ line_year = 0 /\ score = None
AuthorsIdle == lines1 = <<>> /\ pdf_authors = None
NoiseIdle == noise_s = "" /\ noise = None

MainIdle ==
    /\ roots = <<>>
    /\ root_i = 0
    /\ wrote_any = FALSE
    /\ written = <<>>
    /\ exit_status = None

\* _looks_like_noise_line and make_bibtex.main are not running
OthersIdle == NoiseIdle /\ MainIdle

ParseIdle ==
    /\ root_files = <<>>
    /\ pdfs = None
    /\ pdf_records = <<>>
    /\ pdf_rec = None
    /\ pdf_title = None
    /\ pc = "idle"
    /\ data = None

BibIdle ==
    /\ records = <<>>
    /\ used_keys = [k \in {} |-> 0]
    /\ bib_records = <<>>
    /\ rec_i = 0
    /\ bib_out = None

\* process_root lines 266-273: the records are read, used_keys and bib_records are empty
InitBib ==
    /\ records \in SeqsUpTo(BibDocs, MaxRecords)
    /\ used_keys = [k \in {} |-> 0]
    /\ bib_records = <<>>
    /\ rec_i = 0
    /\ bib_out = None
    /\ PickIdle /\ ScoreIdle /\ ParseIdle /\ AuthorsIdle /\ OthersIdle

\* process_root lines 274-277: one iteration of the loop over records
ProcessRecord ==
    /\ bib_out = None
    /\ rec_i < Len(records)
    /\ LET rec == records[rec_i + 1]
       IN IF rec.isDict
          THEN /\ bib_records' = Append(bib_records, make_bibtex_record(rec, used_keys))
               /\ used_keys' = UsedKeysAfter(rec, used_keys)
          ELSE UNCHANGED <<bib_records, used_keys>>
    /\ rec_i' = rec_i + 1
    /\ UNCHANGED <<records, bib_out, pickVars, scoreVars, parseVars, authorVars, noiseVars,
                   mainVars>>

\* process_root lines 279-290: the batch is written once the loop is over
WriteBibtex ==
    /\ bib_out = None
    /\ rec_i = Len(records)
    /\ bib_out' = Some([bibtex_count |-> Len(bib_records), entries |-> bib_records])
    /\ UNCHANGED <<records, used_keys, bib_records, rec_i, pickVars, scoreVars,
                   parseVars, authorVars, noiseVars, mainVars>>

NextBib == ProcessRecord \/ WriteBibtex

SpecBib == InitBib /\ [][NextBib]_vars

(***************************************************************************)
(* Claims about the citation keys of one batch                             *)
(***************************************************************************)
\* the number of records among the first j emitted whose base key is that of record j
Occurrence(j) ==
    Cardinality({k \in 1..j : BaseKey(bib_records[k]) = BaseKey(bib_records[j])})

\* C1: no two citation records emitted in one batch have the same bibtex_key,
\* whatever base keys the records produce (base keys ending in digits included).
C1_KeysUnique ==
    \A i, j \in 1..Len(bib_records) :
        i # j => bib_records[i].bibtex_key # bib_records[j].bibtex_key

\* C2: among the records of a batch that produce the same base key, the first
\* emitted one carries the base key unsuffixed and the i-th one (i >= 2) carries
\* the base key followed by the decimal digits of i, in processing order.
C2_SuffixInFirstSeenOrder ==
    \A j \in 1..Len(bib_records) :
        bib_records[j].bibtex_key =
            IF Occurrence(j) = 1 THEN BaseKey(bib_records[j])
            ELSE BaseKey(bib_records[j]) \o Str(Occurrence(j))

\* three records with one base key have been emitted: base, base2, base3
C2_Witness ==
    /\ Len(bib_records) = 3
    /\ \A j \in 1..3 : BaseKey(bib_records[j]) = "smith2020flow"
    /\ bib_records[1].bibtex_key = "smith2020flow"
    /\ bib_records[2].bibtex_key = "smith2020flow2"
    /\ bib_records[3].bibtex_key = "smith2020flow3"

(***************************************************************************)
(* _pick_best_year_scored applied to a pool of scored candidates           *)
(***************************************************************************)
MaxPool == 3

PoolPairs == {<<y, sc>> : y \in {1999, 2020, 2021}, sc \in {20, 95, 100}}

InitPick ==
    /\ cands \in SeqsUpTo(PoolPairs, MaxPool)
    /\ picked = None
    /\ BibIdle /\ ScoreIdle /\ ParseIdle /\ AuthorsIdle /\ OthersIdle

\* the call: picked holds the returned Optional[int]
PickBestYear ==
    /\ picked = None
    /\ picked' = Some(_pick_best_year_scored(cands))
    /\ UNCHANGED <<cands, bibVars, scoreVars, parseVars, authorVars, noiseVars, mainVars>>

NextPick == PickBestYear

SpecPick == InitPick /\ [][NextPick]_vars

\* C4: for a non-empty pool the returned year is the maximum year among the pairs
\* whose score is the pool's maximum score (a function of the pairs, not of their
\* order); for an empty pool no year is returned.
C4_MaxYearAtMaxScore ==
    picked # None =>
        IF cands = <<>> THEN picked[1] = None
        ELSE LET pairs == SeqRange(cands)
                 top == {p \in pairs : \A q \in pairs : p[2] >= q[2]}
             IN /\ picked[1] # None
                /\ \E p \in top : p[1] = picked[1][1]
                /\ \A p \in top : p[1] <= picked[1][1]

\* a pool whose first pair has neither the top score nor, among the top, the top year
C4_Witness ==
    /\ cands = << <<2021, 20>>, <<1999, 95>>, <<2020, 95>> >>
    /\ picked = Some(Some(2020))

(***************************************************************************)
(* _score_year_in_line applied to a line and a year found in it            *)
(***************************************************************************)
MaxLineWords == 3

ScoreWords ==
    {"2020", "1999", "May", "Vol.", "©", "Downloaded by", "doi", "http://x", "IEEE"}

\* the lines of at most MaxLineWords words in which a year is found
ScoreLines ==
    {l \in {Join(ws, " ") : ws \in SeqsUpTo(ScoreWords, MaxLineWords)} :
        _year_candidates_from_text(l) # <<>>}

InitScore ==
    /\ line \in ScoreLines
    /\ line_year \in SeqRange(_year_candidates_from_text(line))
    /\ score = None
    /\ BibIdle /\ PickIdle /\ ParseIdle /\ AuthorsIdle /\ OthersIdle

\* the call made for line and a year found in it
ScoreYear ==
    /\ score = None
    /\ score' = Some(_score_year_in_line(line, line_year))
    /\ UNCHANGED <<line, line_year, bibVars, pickVars, parseVars, authorVars, noiseVars,
                   mainVars>>

NextScore == ScoreYear

SpecScore == InitScore /\ [][NextScore]_vars

HasMonth(ln) == \E mo \in MONTHS : Contains(Lower(ln), mo)
HasDownloadedBy(ln) == Contains(Lower(ln), "downloaded by")
HasDoiUrl(ln) == Contains(Lower(ln), "doi") /\ Contains(Lower(ln), "http")
HasVolumeIssue(ln) ==
    \E w \in {"vol.", "volume", "no.", "issue"} : Contains(Lower(ln), w)
HasCopyright(ln) == Contains(Lower(ln), "copyright") \/ Contains(Lower(ln), "©")

\* no month, volume/issue word, copyright marker, DOI/URL marker or 'downloaded by'
NoContextMarker(ln) ==
    /\ ~HasMonth(ln) /\ ~HasVolumeIssue(ln) /\ ~HasCopyright(ln) /\ ~HasDownloadedBy(ln)
    /\ ~Contains(Lower(ln), "doi") /\ ~Contains(Lower(ln), "http")

\* C5 as stated: the score is >= 95 whenever the line holds a month name and the
\* digits of the year, and exactly 10 when the line holds no contextual marker.
C5_AsStated ==
    score # None =>
        /\ (HasMonth(line) /\ Contains(Lower(line), Str(line_year))) => score[1] >= 95
        /\ NoContextMarker(line) => score[1] = 10

\* C5 amended: the score is >= 95 whenever the line holds a month name and the
\* digits of the year and holds neither 'downloaded by' nor both 'doi' and 'http';
\* it is exactly 10 when the line holds no contextual marker.
C5_MonthUnlessJunkLine ==
    score # None =>
        /\ (/\ HasMonth(line) /\ Contains(Lower(line), Str(line_year))
            /\ ~HasDownloadedBy(line) /\ ~HasDoiUrl(line)) => score[1] >= 95
        /\ NoContextMarker(line) => score[1] = 10

\* a line with a month, a volume word and the year has been scored 95
C5_Witness ==
    /\ HasMonth(line) /\ HasVolumeIssue(line) /\ ~HasDownloadedBy(line) /\ ~HasDoiUrl(line)
    /\ score = Some(95)

(***************************************************************************)
(* parse_pdfs.py: find_pdfs, parse_pdf, process_root.  A file under root   *)
(* is the record described above with dir and name in place of path.       *)
(***************************************************************************)
\* the ASCII characters from " " to "_" and from "a" to "~", in code-point order
AsciiLow == " !\"#$%&'" \o "(" \o ")" \o "*+,-./0123456789:;<=>?@ABCDEFGHIJKLMNOPQRSTUVWXYZ[\\]^_"
AsciiHigh == "abcdefghijklmnopqrstuvwxyz{|}~"

\* ord(c)
Ord(c) ==
    IF \E i \in 1..Len(AsciiLow) : Ch(AsciiLow, i) = c
    THEN 31 + (CHOOSE i \in 1..Len(AsciiLow) : Ch(AsciiLow, i) = c)
    ELSE 96 + (CHOOSE i \in 1..Len(AsciiHigh) : Ch(AsciiHigh, i) = c)

\* a < b on str: by code point at the first difference, a proper prefix first
StrLess(a, b) ==
    \E k \in 1..Len(b) :
        /\ \A j \in 1..(k - 1) : Ch(a, j) = Ch(b, j)
        /\ (k > Len(a) \/ Ord(Ch(a, k)) < Ord(Ch(b, k)))

\* os.path.join(dirpath, fn)
PathOf(f) == f.dir \o "/" \o f.name

\* os.path.basename(path): what follows the last "/"
basename(path) ==
    LET slashes == {i \in 1..Len(path) : Ch(path, i) = "/"}
    IN IF slashes = {} THEN path ELSE SubSeq(path, MaxOf(slashes) + 1, Len(path))

\* pdfs.sort()
SortPaths(q) ==
    LET Insert(sorted, x) ==
            LET k == Cardinality({j \in 1..Len(sorted) : ~StrLess(x, sorted[j])})
            IN SubSeq(sorted, 1, k) \o <<x>> \o SubSeq(sorted, k + 1, Len(sorted))
        f[i \in 0..Len(q)] == IF i = 0 THEN <<>> ELSE Insert(f[i-1], q[i])
    IN f[Len(q)]

\* the paths of the files whose lowercased name ends with ".pdf", sorted
find_pdfs(files) ==
    LET IsPdfName(f) == EndsWith(Lower(f.name), ".pdf")
        kept == SelectSeq(files, IsPdfName)
    IN SortPaths([i \in 1..Len(kept) |-> PathOf(kept[i])])

\* the file a path names
FileAt(path) == CHOOSE f \in SeqRange(root_files) : PathOf(f) = path

\* parse_pdf lines 691-697: rec as created; error is None while the key is absent
NewRecord(path) ==
    [file_path |-> path, file_name |-> basename(path), title |-> "", authors |-> <<>>,
     year |-> None, error |-> None]

\* f"{type(e).__name__}: {e}" for the exception each failing step raises
ErrorText(fail) ==
    CASE fail = "grobid" -> "URLError: <urlopen error [Errno 111] Connection refused>"
      [] fail = "tei" -> "ParseError: syntax error: line 1, column 0"
      [] OTHER -> "PdfReadError: EOF marker not found"

\* the handler rebuilding the record from scratch: what was assigned is lost
ExceptOnFreshRecord(r, e) == [NewRecord(r.file_path) EXCEPT !.error = Some(e)]

\* parse_pdf lines 723-724: except Exception as e: rec["error"] = ...
ExceptException(r, e) == [r EXCEPT !.error = Some(e)]

\* parse_pdf lines 701-705: rec after the three assignments from the header result h
HeaderAssigned(r, h) == [r EXCEPT !.title = h.title, !.authors = h.authors, !.year = h.year]

\* the raw-text year fy taken whenever one is found
YearFallbackFirst(rec_year, fy) == IF fy # None THEN fy ELSE rec_year

\* parse_pdf lines 708-711: rec["year"] after the year fallback; fy is what
\* fallback_year_from_pdf_first_pages returns when it is called
YearAfterFallback(rec_year, fy) ==
    IF rec_year = None THEN (IF fy # None THEN fy ELSE rec_year) ELSE rec_year

\* the fallback title taken whenever it is good
TitleFallbackWhenGood(rec_title, fallback) ==
    IF fallback # None /\ fallback[1] # "" /\ _is_good_title(fallback[1])
    THEN fallback[1]
    ELSE rec_title

\* parse_pdf lines 715-716: rec["title"] after the title fallback
TitleAfterFallback(rec_title, fallback) ==
    IF fallback # None /\ fallback[1] # ""
       /\ ~_is_good_title(rec_title) /\ _is_good_title(fallback[1])
    THEN fallback[1]
    ELSE rec_title

\* the fallback authors taken only when the structured list is empty
AuthorsFallbackWhenEmpty(rec_authors, found) ==
    IF found # None /\ found[1] # <<>> /\ rec_authors = <<>> THEN found[1] ELSE rec_authors

\* parse_pdf lines 720-721: rec["authors"] after the authors fallback
AuthorsAfterFallback(rec_authors, found) ==
    IF found # None /\ found[1] # <<>> THEN found[1] ELSE rec_authors

\* the most files os.walk yields under a root with a subdirectory
MaxFiles == 3

\* a header whose sourceDesc has no monogr: titleStmt title, analytic authors, the
\* date elements outside monogr, and further header text
Tei(title, authors, pub_dates, note) ==
    [title |-> title, authors |-> authors, pub_dates |-> pub_dates, has_monogr |-> FALSE,
     monogr_title |-> "", meeting |-> None, bibl_scopes |-> <<>>, imprint_dates |-> <<>>,
     note |-> note]

\* an author element with a persName of one forename and a surname
Pers(forename, surname) ==
    [has_pers |-> TRUE, forenames |-> <<forename>>, surname |-> surname]

\* the headers the service answers with: complete, empty, a series banner with a year
\* only in free text, a 'when' of 1900, and one with monogr, imprint, biblScope, meeting
Headers ==
    { Tei("A Study of Turbulent Flow in Pipes", <<Pers("John", "Smith"), Pers("Jane", "Doe")>>,
          << [when |-> "2020-05-01", text |-> "May 2020"] >>, ""),
      Tei("", <<>>, <<>>, ""),
      Tei("CFD with OpenSource Software",
          << [has_pers |-> FALSE, forenames |-> <<>>, surname |-> ""] >>, <<>>,
          "Proceedings 2019"),
      Tei("Report on the Wake", <<Pers("John", "Smith")>>,
          << [when |-> "1900-01-01", text |-> ""] >>, ""),
      [title |-> "Flow, Heat, Mass, and More",
       authors |-> <<Pers("JOHN", "SMITH"), Pers("John", "Smith")>>,
       pub_dates |-> <<>>, has_monogr |-> TRUE, monogr_title |-> "Journal of X",
       meeting |-> Some("ICCS 2018 workshop"), bibl_scopes |-> <<"vol 12 (2017)">>,
       imprint_dates |-> << [when |-> "2021", text |-> "2022"] >>, note |-> ""] }

\* the pages PdfReader gives: none, a title page, authors equal to reviewers, a page
\* whose extract_text raises followed by junk lines, a 'Cite as:' page
PageSets ==
    { <<>>,
      << [ok |-> TRUE,
          lines |-> <<"Numerical  Simulation of Wake Flow", "", "Author:", " Jane   Doe",
                      "Peer reviewed by:", "John Smith", "Published May 2021">>] >>,
      << [ok |-> TRUE,
          lines |-> <<"Author:", "John Smith", "Peer reviewed by:", "JOHN SMITH">>] >>,
      << [ok |-> FALSE, lines |-> <<"Author:", "Jane Doe">>],
         [ok |-> TRUE, lines |-> <<"Downloaded by X on 2019", "Copyright 2018 Elsevier">>] >>,
      << [ok |-> TRUE,
          lines |-> <<"Cite as: Roe, B.: Flow, heat, mass, and more of it. In Proc. 2017",
                      "Author:", "Chalmers University", "Abstract">>] >> }

\* the step of parse_pdf that raises, if any
Fails == {"none", "grobid", "tei", "year_text", "title_text", "authors_text"}

\* one PDF under root, for every header, page text and failing step
SingleFiles ==
    {[dir |-> "/r", name |-> "a.pdf", fail |-> fl, tei |-> t, pages |-> p] :
        fl \in Fails, t \in Headers, p \in PageSets}

\* the files of a root with a subdirectory; README.md is not a PDF
TreeFiles ==
    LET good == CHOOSE t \in Headers : t.title = "A Study of Turbulent Flow in Pipes"
        bare == CHOOSE t \in Headers : t.title = ""
        text == CHOOSE p \in PageSets : Len(p) = 1 /\ Len(p[1].lines) = 7
    IN { [dir |-> "/r", name |-> "b.pdf", fail |-> "none", tei |-> good, pages |-> text],
         [dir |-> "/r", name |-> "B.PDF", fail |-> "grobid", tei |-> good, pages |-> text],
         [dir |-> "/r", name |-> "README.md", fail |-> "none", tei |-> bare, pages |-> <<>>],
         [dir |-> "/r/a", name |-> "c.pdf", fail |-> "title_text", tei |-> good, pages |-> text] }

\* os.walk(root) is top-down: the files of root come before those of root/a
Walks ==
    {q \in SeqsUpTo(TreeFiles, MaxFiles) :
        /\ \A i, j \in 1..Len(q) : i # j => q[i] # q[j]
        /\ \A i, j \in 1..Len(q) : i < j => ~(q[i].dir = "/r/a" /\ q[j].dir = "/r")}

InitParse ==
    /\ root_files \in {<<f>> : f \in SingleFiles} \cup Walks
    /\ pdfs = None
    /\ pdf_records = <<>>
    /\ pdf_rec = None
    /\ pdf_title = None
    /\ pc = "find_pdfs"
    /\ data = None
    /\ BibIdle /\ PickIdle /\ ScoreIdle /\ AuthorsIdle /\ OthersIdle

\* process_root line 729
FindPdfs ==
    /\ pc = "find_pdfs"
    /\ pdfs' = Some(find_pdfs(root_files))
    /\ pc' = "records"
    /\ UNCHANGED <<root_files, pdf_records, pdf_rec, pdf_title, data, bibVars, pickVars,
                   scoreVars, authorVars, noiseVars, mainVars>>

\* process_root line 730, parse_pdf lines 691-697: the call for the next path
BeginParse ==
    /\ pc = "records"
    /\ Len(pdf_records) < Len(pdfs[1])
    /\ pdf_rec' = Some(NewRecord(pdfs[1][Len(pdf_records) + 1]))
    /\ pdf_title' = None
    /\ pc' = "header"
    /\ UNCHANGED <<root_files, pdfs, pdf_records, data, bibVars, pickVars,
                   scoreVars, authorVars, noiseVars, mainVars>>

\* parse_pdf lines 700-705: the service call, the header parse, the three assignments
HeaderStep ==
    /\ pc = "header"
    /\ LET doc == FileAt(pdf_rec[1].file_path)
           h == parse_title_authors_year_from_header_tei(doc.tei)
       IN IF doc.fail \in {"grobid", "tei"}
          THEN /\ pdf_rec' = Some(ExceptException(pdf_rec[1], ErrorText(doc.fail)))
               /\ pc' = "return"
          ELSE /\ pdf_rec' = Some(HeaderAssigned(pdf_rec[1], h))
               /\ pc' = "year"
    /\ UNCHANGED <<root_files, pdfs, pdf_records, pdf_title, data, bibVars, pickVars,
                   scoreVars, authorVars, noiseVars, mainVars>>

\* parse_pdf lines 708-711: the file is read only when rec["year"] is None
YearStep ==
    /\ pc = "year"
    /\ LET doc == FileAt(pdf_rec[1].file_path)
       IN IF pdf_rec[1].year = None /\ doc.fail = "year_text"
          THEN /\ pdf_rec' = Some(ExceptException(pdf_rec[1], ErrorText(doc.fail)))
               /\ pc' = "return"
          ELSE /\ pdf_rec' = Some([pdf_rec[1] EXCEPT
                                     !.year = YearAfterFallback(
                                                  pdf_rec[1].year,
                                                  fallback_year_from_pdf_first_pages(doc, 2))])
               /\ pc' = "title"
    /\ UNCHANGED <<root_files, pdfs, pdf_records, pdf_title, data, bibVars, pickVars,
                   scoreVars, authorVars, noiseVars, mainVars>>

\* parse_pdf lines 713-716
TitleStep ==
    /\ pc = "title"
    /\ LET doc == FileAt(pdf_rec[1].file_path)
           title == extract_title_from_pdf_lines(pdf_first_pages_text_lines(doc, 1))
       IN IF doc.fail = "title_text"
          THEN /\ pdf_rec' = Some(ExceptException(pdf_rec[1], ErrorText(doc.fail)))
               /\ pdf_title' = pdf_title
               /\ pc' = "return"
          ELSE /\ pdf_rec' = Some([pdf_rec[1] EXCEPT
                                     !.title = TitleAfterFallback(pdf_rec[1].title, title)])
               /\ pdf_title' = Some(title)
               /\ pc' = "authors"
    /\ UNCHANGED <<root_files, pdfs, pdf_records, data, bibVars, pickVars,
                   scoreVars, authorVars, noiseVars, mainVars>>

\* parse_pdf lines 719-721
AuthorsStep ==
    /\ pc = "authors"
    /\ LET doc == FileAt(pdf_rec[1].file_path)
       IN IF doc.fail = "authors_text"
          THEN pdf_rec' = Some(ExceptException(pdf_rec[1], ErrorText(doc.fail)))
          ELSE pdf_rec' = Some([pdf_rec[1] EXCEPT
                                  !.authors = AuthorsAfterFallback(pdf_rec[1].authors,
                                                                   fallback_authors_from_pdf(doc))])
    /\ pc' = "return"
    /\ UNCHANGED <<root_files, pdfs, pdf_records, pdf_title, data, bibVars, pickVars,
                   scoreVars, authorVars, noiseVars, mainVars>>

\* parse_pdf line 726, process_root line 730: rec is returned and joins records
ReturnRec ==
    /\ pc = "return"
    /\ pdf_records' = Append(pdf_records, pdf_rec[1])
    /\ pdf_rec' = None
    /\ pdf_title' = None
    /\ pc' = "records"
    /\ UNCHANGED <<root_files, pdfs, data, bibVars, pickVars, scoreVars, authorVars, noiseVars,
                   mainVars>>

\* process_root lines 731-736: the batch is returned once every path is parsed
FinishRoot ==
    /\ pc = "records"
    /\ Len(pdf_records) = Len(pdfs[1])
    /\ data' = Some([root_path |-> "/r", pdf_count |-> Len(pdfs[1]), pdfs |-> pdf_records])
    /\ pc' = "done"
    /\ UNCHANGED <<root_files, pdfs, pdf_records, pdf_rec, pdf_title, bibVars, pickVars,
                   scoreVars, authorVars, noiseVars, mainVars>>

Next ==
    \/ FindPdfs \/ BeginParse \/ HeaderStep \/ YearStep \/ TitleStep \/ AuthorsStep
    \/ ReturnRec \/ FinishRoot

Spec == InitParse /\ [][Next]_vars

(***************************************************************************)
(* Claims about parse_pdf and parse_pdfs.process_root                      *)
(***************************************************************************)
\* the file of the record parse_pdf is building
CurDoc == FileAt(pdf_rec[1].file_path)

\* what the header of a file gives
Structured(doc) == parse_title_authors_year_from_header_tei(doc.tei)

\* the year, title and authors fallbacks have been passed without an exception
AfterYear ==
    \/ pc \in {"title", "authors"}
    \/ /\ pc = "return"
       /\ (pdf_rec[1].error = None \/ CurDoc.fail \in {"title_text", "authors_text"})

AfterTitle ==
    \/ pc = "authors"
    \/ pc = "return" /\ (pdf_rec[1].error = None \/ CurDoc.fail = "authors_text")

AfterAuthors == pc = "return" /\ pdf_rec[1].error = None

\* C3: in every record returned by parse_pdf the year is None or an integer in
\* [1950, CURRENT_YEAR + 1], whatever the header (the 4-digit prefix of a 'when'
\* attribute included) and the page text contain.
C3_YearInRange ==
    \A i \in 1..Len(pdf_records) :
        \/ pdf_records[i].year = None
        \/ /\ 1950 <= pdf_records[i].year[1]
           /\ pdf_records[i].year[1] <= CURRENT_YEAR + 1

\* C6: the merged title differs from the structured title only if the structured
\* title fails _is_good_title and the fallback title exists and passes it; in every
\* other case the merged title is the structured title.
C6_TitleMerge ==
    AfterTitle =>
        LET st == Structured(CurDoc).title
            ft == extract_title_from_pdf_lines(pdf_first_pages_text_lines(CurDoc, 1))
            overridable == ~_is_good_title(st) /\ ft # None /\ _is_good_title(ft[1])
        IN /\ pdf_rec[1].title # st => overridable
           /\ ~overridable => pdf_rec[1].title = st

\* a bad structured title has been replaced by a good fallback title
C6_Witness ==
    /\ AfterAuthors
    /\ Structured(CurDoc).title = "CFD with OpenSource Software"
    /\ ~_is_good_title(Structured(CurDoc).title)
    /\ pdf_rec[1].title = "Numerical Simulation of Wake Flow"
    /\ _is_good_title(pdf_rec[1].title)

\* C7: a year supplied by the structured result is the merged year, the raw-text
\* fallback never changes it; when the structured year is absent the merged year is
\* the raw-text fallback year if one is found and stays absent otherwise.
C7_YearMerge ==
    AfterYear =>
        LET sy == Structured(CurDoc).year
            fy == fallback_year_from_pdf_first_pages(CurDoc, 2)
        IN pdf_rec[1].year = IF sy # None THEN sy ELSE fy

\* the structured year 2020 has been kept although the page text gives 2021
C7_Witness ==
    /\ AfterAuthors
    /\ Structured(CurDoc).year = Some(2020)
    /\ fallback_year_from_pdf_first_pages(CurDoc, 2) = Some(2021)
    /\ pdf_rec[1].year = Some(2020)

\* C8: whenever the label-anchored fallback yields at least one author the merged
\* author list is the fallback list, whatever the structured list; whenever
\* filtering the 'Author:' block yields zero names the fallback reports no result
\* and the merged author list is the structured list.
C8_AuthorsMerge ==
    AfterAuthors =>
        LET sa == Structured(CurDoc).authors
            fa == fallback_authors_from_pdf(CurDoc)
            block == extract_block_after_label(pdf_first_pages_text_lines(CurDoc, 1), "author:")
        IN /\ (fa # None /\ fa[1] # <<>>) => pdf_rec[1].authors = fa[1]
           /\ filter_name_lines(block) = <<>> => (fa = None /\ pdf_rec[1].authors = sa)

\* two structured authors have been replaced by the one author of the 'Author:' block
C8_Witness ==
    /\ AfterAuthors
    /\ Structured(CurDoc).authors = <<"John Smith", "Jane Doe">>
    /\ fallback_authors_from_pdf(CurDoc) = Some(<<"Jane Doe">>)
    /\ pdf_rec[1].authors = <<"Jane Doe">>

\* the paths of the PDF files under root
PdfPaths == {PathOf(f) : f \in {g \in SeqRange(root_files) : EndsWith(Lower(g.name), ".pdf")}}

\* parse_pdf reaches the statement that raises for this file
FailureReached(doc) ==
    \/ doc.fail \in {"grobid", "tei", "title_text", "authors_text"}
    \/ doc.fail = "year_text" /\ Structured(doc).year = None

\* a call of parse_pdf in progress holds the record of the next path and so can always
\* go on to its return; the records built so far are those of the PDF files in
\* increasing path order, a record whose file fails carries an error, and the
\* returned batch holds one record per PDF file
BatchInOrder ==
    /\ pc \in {"find_pdfs", "records", "header", "year", "title", "authors", "return", "done"}
    /\ pc \in {"header", "year", "title", "authors", "return"} =>
          /\ pdf_rec # None
          /\ pdf_rec[1].file_path = pdfs[1][Len(pdf_records) + 1]
    /\ pc = "records" => Len(pdf_records) <= Len(pdfs[1])
    /\ pc = "done" => data # None
    /\ \A i \in 1..Len(pdf_records) :
          /\ pdf_records[i].file_path \in PdfPaths
          /\ \A j \in 1..(i - 1) :
                StrLess(pdf_records[j].file_path, pdf_records[i].file_path)
          /\ FailureReached(FileAt(pdf_records[i].file_path)) => pdf_records[i].error # None
    /\ data # None =>
          /\ data[1].pdfs = pdf_records
          /\ Len(data[1].pdfs) = Cardinality(PdfPaths)
          /\ data[1].pdf_count = Cardinality(PdfPaths)

\* the step that records an error leaves title, authors and year as they were and
\* goes to the return of the record, the batch built so far untouched
ErrorKeepsValues ==
    (pdf_rec # None /\ pdf_rec' # None /\ pdf_rec[1].error = None /\ pdf_rec'[1].error # None)
        => /\ pdf_rec'[1].title = pdf_rec[1].title
           /\ pdf_rec'[1].authors = pdf_rec[1].authors
           /\ pdf_rec'[1].year = pdf_rec[1].year
           /\ pc' = "return"
           /\ UNCHANGED <<pdfs, pdf_records>>

\* C9: a failure of the service call or of raw-text extraction for one document
\* never aborts the batch: parse_pdf always returns a record, the failing document's
\* record carries an error, the values assigned before the failing step are kept, and
\* process_root emits exactly one record per document, in sorted-path order.
C9_FailuresContained == []BatchInOrder /\ [][ErrorKeepsValues]_vars

\* a batch walked out of path order is returned sorted: the first file fails in the
\* service call, the second in the title step with its header values kept, the third
\* is parsed in full
C9_Witness ==
    /\ data # None
    /\ Len(root_files) = 3 /\ root_files[1].name = "b.pdf"
    /\ Len(data[1].pdfs) = 3
    /\ data[1].pdfs[1].file_path = "/r/B.PDF" /\ data[1].pdfs[1].error # None
    /\ data[1].pdfs[2].file_path = "/r/a/c.pdf" /\ data[1].pdfs[2].error # None
    /\ data[1].pdfs[2].title = "A Study of Turbulent Flow in Pipes"
    /\ data[1].pdfs[2].year = Some(2020)
    /\ data[1].pdfs[3].file_path = "/r/b.pdf" /\ data[1].pdfs[3].error = None

(***************************************************************************)
(* fallback_authors_from_pdf applied to the lines of a first page          *)
(***************************************************************************)
\* the most lines on the first page
MaxLines == 4

\* the lines a first page is made of
AuthorLines == {"Author:", "John Smith", "Jane Doe", "Peer reviewed by:", "JOHN SMITH"}

InitAuthors ==
    /\ lines1 \in SeqsUpTo(AuthorLines, MaxLines)
    /\ pdf_authors = None
    /\ BibIdle /\ PickIdle /\ ScoreIdle /\ ParseIdle /\ OthersIdle

\* the call: pdf_authors holds the returned Optional[List[str]]
FallbackAuthorsCall ==
    /\ pdf_authors = None
    /\ pdf_authors' = Some(FallbackAuthors(lines1))
    /\ UNCHANGED <<lines1, bibVars, pickVars, scoreVars, parseVars, noiseVars, mainVars>>

NextAuthors == FallbackAuthorsCall

SpecAuthors == InitAuthors /\ [][NextAuthors]_vars

\* C10: no author returned by fallback_authors_from_pdf has a normalized form that
\* belongs to the set of normalized names filtered from the 'Peer reviewed by:'
\* block of the same lines.
C10_NoPeerAmongAuthors ==
    (pdf_authors # None /\ pdf_authors[1] # None) =>
        \A i \in 1..Len(pdf_authors[1][1]) :
            _norm_person(pdf_authors[1][1][i]) \notin PeerSet(lines1)

(***************************************************************************)
(* parse_pdf on one readable PDF whose header has no title, for every      *)
(* first page made of a few lines                                          *)
(***************************************************************************)
\* the most lines on the first page
MaxTitleLines == 3

\* the lines a first page is made of: two clean title lines of equal score, a name, two
\* labels, a citation line with ".:" twice and a venue suffix
TitleLines ==
    { "A Study of Flow",
      "A Model of Flow",
      "John Smith",
      "Author:",
      "Abstract",
      "Cite as: Roe, B.: Part A.: Flow in a pipe. In Proc." }

\* a first page of 36 lines: the clean title line comes after 35 retained lines
LongPage == [i \in 1..36 |-> IF i = 36 THEN "A Study of Flow" ELSE "Smith"]

\* the file /r/a.pdf: no step raises, the header gives a date and neither title nor
\* authors, the first page has the lines q
TitleFile(q) ==
    [dir |-> "/r", name |-> "a.pdf", fail |-> "none",
     tei |-> Tei("", <<>>, << [when |-> "2020-05-01", text |-> ""] >>, ""),
     pages |-> << [ok |-> TRUE, lines |-> q] >>]

InitTitle ==
    /\ root_files \in {<<TitleFile(q)>> : q \in SeqsUpTo(TitleLines, MaxTitleLines) \cup {LongPage}}
    /\ pdfs = None
    /\ pdf_records = <<>>
    /\ pdf_rec = None
    /\ pdf_title = None
    /\ pc = "find_pdfs"
    /\ data = None
    /\ BibIdle /\ PickIdle /\ ScoreIdle /\ AuthorsIdle /\ OthersIdle

SpecTitle == InitTitle /\ [][Next]_vars

\* lines1 of parse_pdf line 713 for the document being parsed
PageLines == pdf_first_pages_text_lines(CurDoc, 1)

\* a clean title line: at least 4 words, not noise, passing the quality gate
CleanTitleLine(ln) ==
    /\ Len(SplitWs(ln)) >= 4
    /\ ~_looks_like_noise_line(ln)
    /\ _is_good_title(ln)

\* C11: for every document whose structured title is empty and whose first-page lines
\* contain a clean title line (at least 4 words, not noise, passing the quality gate),
\* whatever other lines surround it, the title merged by parse_pdf is exactly that line.
C11_CleanLineIsTitle ==
    (AfterTitle /\ Structured(CurDoc).title = "") =>
        \A i \in 1..Len(PageLines) :
            (CleanTitleLine(PageLines[i]) /\ \A j \in 1..Len(PageLines) :
                                                 CleanTitleLine(PageLines[j]) => j = i)
                => pdf_rec[1].title = PageLines[i]

\* the assignment of parse_pdf line 714 has been made for the document being parsed
TitleExtracted == pdf_rec # None /\ pdf_title # None

\* the line extract_title_from_cite_as returns from: the first "cite as:" line whose
\* candidate is title-like
CitedLine(lines) ==
    lines[MinOf({i \in 1..Len(lines) :
                    /\ Contains(Lower(lines[i]), "cite as:")
                    /\ TitleLike(CiteAsCandidate(lines[i]))})]

\* the text after "Cite as:", truncated before a ". In " venue suffix
CitedText(ln) == BeforeDotIn(Strip(LastPart(SplitFirst(ln, ":"))))

\* the text of s after the last occurrence of ".:", trailing punctuation removed
AfterLastDotColon(s) ==
    LET at == {i \in 1..(Len(s) - 1) : Sub(s, i, 2) = ".:"}
    IN StripChars(Strip(SubSeq(s, MaxOf(at) + 2, Len(s))), {" ", ".", ";", "-"})

\* C18: when the text after 'Cite as:' (truncated before any '. In ' venue suffix)
\* contains '.:' one or more times, the candidate title extract_title_from_cite_as
\* returns is the text after the last occurrence of '.:'.
C18_AfterLastDotColon ==
    (TitleExtracted /\ extract_title_from_cite_as(PageLines) # None
                    /\ Contains(CitedText(CitedLine(PageLines)), ".:"))
        => pdf_title[1] = Some(AfterLastDotColon(CitedText(CitedLine(PageLines))))

\* the lines the span scan works on: those before the first Abstract / Keywords label
\* line, 35 at most
LinesBeforeLabel(lines) ==
    LET labels == {i \in 1..Len(lines) : IsSectionStart(lines[i])}
        upto == IF labels = {} THEN Len(lines) ELSE MinOf(labels) - 1
    IN SubSeq(lines, 1, IF upto < 35 THEN upto ELSE 35)

\* the spans <<i, n>> of 1, 2 or 3 contiguous lines that survive the filters
SurvivingSpans(lines) ==
    {w \in (1..Len(lines)) \X (1..3) :
        /\ w[1] + w[2] - 1 <= Len(lines)
        /\ ~_looks_like_noise_line(lines[w[1]])
        /\ ChunkSurvives(Chunk(lines, w[1], w[2]))}

\* the span a is met before the span b in scan order
MetBefore(a, b) == a[1] < b[1] \/ (a[1] = b[1] /\ a[2] < b[2])

\* w has the maximum of the scores sc and is the first such span in scan order
FirstMaximum(w, sc) ==
    \A o \in DOMAIN sc : sc[o] < sc[w] \/ (sc[o] = sc[w] /\ ~MetBefore(o, w))

\* t is the text of the first span of maximum score, none when no span survives
IsFirstMaxSpan(t, lines, spans, sc) ==
    IF spans = {} THEN t = None
    ELSE \E w \in spans : FirstMaximum(w, sc) /\ t = Some(Chunk(lines, w[1], w[2]))

FirstMaxOf(t, lines, spans) ==
    IsFirstMaxSpan(t, lines, spans, [w \in spans |-> _title_score(Chunk(lines, w[1], w[2]))])

\* C19: when the cite-as strategy finds nothing, extract_title_from_pdf_lines considers
\* only spans of 1, 2 or 3 contiguous lines of the trimmed sequence that survive the
\* filters, returns the span of maximum score, the first one met in scan order when
\* several share the maximum, and returns none exactly when no span survives.
C19_FirstMaxSpan ==
    (TitleExtracted /\ extract_title_from_cite_as(PageLines) = None)
        => FirstMaxOf(pdf_title[1], LinesBeforeLabel(PageLines),
                      SurvivingSpans(LinesBeforeLabel(PageLines)))

\* two spans share the maximum score and the first one has been returned
C19_Witness ==
    /\ TitleExtracted
    /\ PageLines = <<"A Study of Flow", "Author:", "A Model of Flow">>
    /\ _title_score("A Study of Flow") = _title_score("A Model of Flow")
    /\ pdf_title[1] = Some("A Study of Flow")

(***************************************************************************)
(* _looks_like_noise_line applied to one line                              *)
(***************************************************************************)
\* the most phrases a line is made of
MaxPhrases == 3

\* the phrases a line is made of
NoisePhrases ==
    {"a, b, c,", "one two three four five six", "University of Lund", "2", "x@y.org",
     "Lund,", "Germany"}

InitNoise ==
    /\ noise_s \in {Join(q, " ") : q \in SeqsUpTo(NoisePhrases, MaxPhrases)}
    /\ noise = None
    /\ MainIdle
    /\ BibIdle /\ PickIdle /\ ScoreIdle /\ ParseIdle /\ AuthorsIdle

\* the call: noise holds the returned bool
NoiseCall ==
    /\ noise = None
    /\ noise' = Some(_looks_like_noise_line(noise_s))
    /\ UNCHANGED <<noise_s, bibVars, pickVars, scoreVars, parseVars, authorVars, mainVars>>

NextNoise == NoiseCall

SpecNoise == InitNoise /\ [][NextNoise]_vars

\* the line contains an affiliation keyword
HasAffiliationWord(ln) == \E k \in AffiliationWords : Contains(Lower(ln), k)

\* the line has at least 3 commas and more than 8 words
CommasAndWords(ln) == CountChar(ln, ",") >= 3 /\ Len(SplitWs(ln)) > 8

MaxMarkers == 2

\* the words a title is made of: one marker for each rule of guess_entry_type, and a
\* word that is no marker
TypeMarkers ==
    {"Doctoral", "Master", "Thesis", "Workshop", "Technical Report", "Report", "Flow"}

\* a file name with a report number and one without
TypeFileNames == {"NASA-TM-2020123.pdf", "a.pdf"}

InitType ==
    /\ records \in {<<Doc(Join(q, " "), <<>>, None, fn)>> :
                       q \in SeqsUpTo(TypeMarkers, MaxMarkers), fn \in TypeFileNames}
    /\ used_keys = [k \in {} |-> 0]
    /\ bib_records = <<>>
    /\ rec_i = 0
    /\ bib_out = None
    /\ PickIdle /\ ScoreIdle /\ ParseIdle /\ AuthorsIdle /\ OthersIdle

SpecType == InitType /\ [][NextBib]_vars

\* the lowercased text t contains one of the markers
HasMarker(t, markers) == \E x \in markers : Contains(Lower(t), x)

\* the rules of the decision list, in order, each with its entry type
TypeRules(title, file_name) ==
    << <<HasMarker(title, {"phd", "dissertation", "doctoral"}), "phdthesis">>,
       <<HasMarker(title, {"master", "msc", "m.sc"}), "mastersthesis">>,
       <<HasMarker(title, {"thesis"}), "phdthesis">>,
       <<HasMarker(title, {"proceedings", "conference", "symposium", "workshop"}),
         "inproceedings">>,
       <<HasMarker(title, {"technical report", "tech report", "nasa/tm", "nasa/tp", "report"})
           \/ ReportNumberIn(Lower(file_name)),
         "techreport">>,
       <<TRUE, "misc">> >>

\* the entry type of the first rule that matches
FirstMatch(rules) == rules[MinOf({i \in 1..Len(rules) : rules[i][1]})][2]

MaxRoots == 3

RootKinds == {"not_a_dir", "missing", "bad_pdfs", "not_a_dict", "ok"}

\* the 'pdfs' lists a parsed file holds
RootRecords ==
    { <<>>,
      <<Doc("Flow", <<"Smith, John">>, Some(2020), "a.pdf"), NotADict,
        Doc("Flow", <<"Smith, John">>, Some(2020), "b.pdf")>> }

RootStates ==
    {[kind |-> k, records |-> <<>>] : k \in RootKinds \ {"ok"}}
        \cup {[kind |-> "ok", records |-> r] : r \in RootRecords}

\* make_bibtex.process_root lines 272-277: <<bib_records, used_keys>> after the loop
BibLoop(recs) ==
    LET f[i \in 0..Len(recs)] ==
            IF i = 0 THEN << <<>>, [k \in {} |-> 0] >>
            ELSE IF recs[i].isDict
                 THEN <<Append(f[i-1][1], make_bibtex_record(recs[i], f[i-1][2])),
                        UsedKeysAfter(recs[i], f[i-1][2])>>
                 ELSE f[i-1]
    IN f[Len(recs)][1]

\* make_bibtex.process_root lines 279-285: out, for the root at position i of roots
BibOutOf(i, bib_recs) == [root |-> i, bibtex_count |-> Len(bib_recs), entries |-> bib_recs]

\* what process_root writes for the root at position i of roots
BibOut(i, recs) == BibOutOf(i, BibLoop(recs))

InitMain ==
    /\ roots \in SeqsUpTo(RootStates, MaxRoots)
    /\ root_i = 0
    /\ wrote_any = FALSE
    /\ written = <<>>
    /\ exit_status = None
    /\ NoiseIdle
    /\ BibIdle /\ PickIdle /\ ScoreIdle /\ ParseIdle /\ AuthorsIdle

\* main lines 308-310: no root at all
MainNoRoots ==
    /\ exit_status = None
    /\ roots = <<>>
    /\ exit_status' = Some(3)
    /\ UNCHANGED <<roots, root_i, wrote_any, written, bibVars, pickVars, scoreVars,
                   parseVars, authorVars, noiseVars>>

\* main lines 313-318 with the call of process_root (lines 260-290): one iteration of
\* the loop; the AttributeError of line 267 is caught nowhere and ends the run with
\* the interpreter's status 1
MainRoot ==
    /\ exit_status = None
    /\ root_i < Len(roots)
    /\ LET root == roots[root_i + 1]
       IN CASE root.kind = "not_a_dir" ->
                 UNCHANGED <<wrote_any, written, exit_status>>
            [] root.kind \in {"missing", "bad_pdfs"} ->
                 /\ wrote_any' = (wrote_any \/ FALSE)
                 /\ UNCHANGED <<written, exit_status>>
            [] root.kind = "not_a_dict" ->
                 /\ exit_status' = Some(1)
                 /\ UNCHANGED <<wrote_any, written>>
            [] OTHER ->
                 /\ written' = Append(written, BibOut(root_i + 1, root.records))
                 /\ wrote_any' = (wrote_any \/ TRUE)
                 /\ UNCHANGED exit_status
    /\ root_i' = root_i + 1
    /\ UNCHANGED <<roots, bibVars, pickVars, scoreVars, parseVars, authorVars, noiseVars>>

\* main line 320, after the loop
MainReturn ==
    /\ exit_status = None
    /\ roots # <<>>
    /\ root_i = Len(roots)
    /\ exit_status' = Some(IF wrote_any THEN 0 ELSE 4)
    /\ UNCHANGED <<roots, root_i, wrote_any, written, bibVars, pickVars, scoreVars,
                   parseVars, authorVars, noiseVars>>

NextMain == MainNoRoots \/ MainRoot \/ MainReturn

SpecMain == InitMain /\ [][NextMain]_vars

\* the positions in roots of the outputs written so far
WrittenRoots == {written[j].root : j \in 1..Len(written)}

\* C14: for every sequence of roots, a root whose parsed batch file is missing or whose
\* 'pdfs' container is not a list is reported and skipped without writing output, and
\* every later root in the sequence is still processed; the exit status of the run is
\* 0 iff at least one root was written.
C14_BadRootsSkipped ==
    /\ \A i \in 1..Len(roots) :
          roots[i].kind \in {"missing", "bad_pdfs"} => i \notin WrittenRoots
    /\ exit_status # None =>
          /\ root_i = Len(roots)
          /\ \A i \in 1..Len(roots) : roots[i].kind = "ok" => i \in WrittenRoots
          /\ (exit_status = Some(0)) <=> (written # <<>>)

(***************************************************************************)
(* parse_pdf on one readable PDF, for every header with a few author       *)
(* elements, with and without an "Author:" block on the first page         *)
(***************************************************************************)
\* the most author elements in a header
MaxAuthors == 3

\* the author elements of a header: a name, the same name in capitals, the same name
\* with a footnote mark, another name
HeaderAuthors ==
    {Pers("John", "Smith"), Pers("JOHN", "SMITH"), Pers("John", "Smith*"), Pers("Jane", "Doe")}

\* the first pages: no text, and a page with an "Author:" block
AuthorPages ==
    { <<>>,
      << [ok |-> TRUE, lines |-> <<"Author:", "John Smith", "Jane Doe", "JOHN SMITH">>] >> }

InitDedupe ==
    /\ root_files \in
          {<< [dir |-> "/r", name |-> "a.pdf", fail |-> "none",
               tei |-> Tei("A Study of Flow", q, <<>>, ""), pages |-> p] >> :
              q \in SeqsUpTo(HeaderAuthors, MaxAuthors), p \in AuthorPages}
    /\ pdfs = None
    /\ pdf_records = <<>>
    /\ pdf_rec = None
    /\ pdf_title = None
    /\ pc = "find_pdfs"
    /\ data = None
    /\ BibIdle /\ PickIdle /\ ScoreIdle /\ AuthorsIdle /\ OthersIdle

SpecDedupe == InitDedupe /\ [][Next]_vars

\* no two entries of the list normalize to the same key
DistinctPersons(authors) ==
    \A i, j \in 1..Len(authors) :
        _norm_person(authors[i]) = _norm_person(authors[j]) => i = j

\* C15: in every record returned by parse_pdf, whether its author list comes from the
\* structured-service extractor or from the label-anchored fallback, no two entries of
\* authors normalize (lowercased, punctuation stripped) to the same key.
C15_NoDuplicateAuthors ==
    \A i \in 1..Len(pdf_records) : DistinctPersons(pdf_records[i].authors)

(***************************************************************************)
(* Claims about the fields of the records of make_bibtex.process_root      *)
(***************************************************************************)
\* the rendered entry has a line for the field k
Renders(bibtex, k) == Contains(bibtex, "\n  " \o k \o " = {")

\* C16: for every document record, the fields mapping built by make_bibtex_record holds
\* no empty-string value and format_bibtex renders no field whose value is empty: an
\* empty title, an empty author list, a non-integer year or an empty file path is
\* omitted rather than stored or rendered empty.
C16_NoEmptyField ==
    \A i \in 1..Len(bib_records) :
        LET r == bib_records[i]
        IN /\ \A k \in DOMAIN r.fields : r.fields[k] # ""
           /\ ~Contains(r.bibtex, " = {}")
           /\ \A k \in {"author", "title", "year", "file"} :
                 Renders(r.bibtex, k) <=> k \in DOMAIN r.fields
           /\ r.title = "" => "title" \notin DOMAIN r.fields
           /\ _bibtex_author_field(r.authors) = "" => "author" \notin DOMAIN r.fields
           /\ ~YearIsInt(r.year) => "year" \notin DOMAIN r.fields
           /\ r.file_path = "" => "file" \notin DOMAIN r.fields

\* a record without title, authors, year and file path has been given the note and
\* howpublished fields only
C16_Witness ==
    \E i \in 1..Len(bib_records) :
        /\ bib_records[i].title = "" /\ bib_records[i].authors = <<>>
        /\ bib_records[i].year = None /\ bib_records[i].file_path = ""
        /\ DOMAIN bib_records[i].fields = {"note", "howpublished"}
        /\ bib_records[i].bibtex = "@misc{anonnodatework,\n  howpublished = {PDF},\n  note = {Local PDF}\n}"

(***************************************************************************)
(* parse_pdf on one readable PDF whose header has no date, for every       *)
(* second page made of a few lines with years                              *)
(***************************************************************************)
\* the most lines on the second page
MaxYearLines == 3

\* the lines a second page is made of: two month lines, a volume line with a newer
\* year, a download stamp, a line with two bare years, a blank line
YearLines ==
    {"May 2020", "June 2019", "Vol. 3, 2021", "Downloaded by X on 2023", "2018 and 2022", " "}

InitYear ==
    /\ root_files \in
          {<< [dir |-> "/r", name |-> "a.pdf", fail |-> "none",
               tei |-> Tei("A Study of Flow", <<>>, <<>>, ""),
               pages |-> << [ok |-> TRUE, lines |-> <<>>], [ok |-> TRUE, lines |-> q] >>] >> :
              q \in SeqsUpTo(YearLines, MaxYearLines)}
    /\ pdfs = None
    /\ pdf_records = <<>>
    /\ pdf_rec = None
    /\ pdf_title = None
    /\ pc = "find_pdfs"
    /\ data = None
    /\ BibIdle /\ PickIdle /\ ScoreIdle /\ AuthorsIdle /\ OthersIdle

SpecYear == InitYear /\ [][Next]_vars

\* the (year, score) pairs of one line
LinePairs(ln, ys) == [k \in 1..Len(ys) |-> <<ys[k], _score_year_in_line(ln, ys[k])>>]

\* all (year, score) pairs of all lines, in order
YearPool(lines) ==
    Flatten([i \in 1..Len(lines) |->
                LinePairs(Strip(lines[i]), _year_candidates_from_text(Strip(lines[i])))])

\* the shared selection policy on the pool, no year when there is no candidate or the
\* winning score is <= 0
PolicyYear(pool) ==
    IF pool = <<>> \/ \A k \in 1..Len(pool) : pool[k][2] <= 0 THEN None
    ELSE _pick_best_year_scored(pool)

\* C17: for every sequence of text lines, the single-pass selection of
\* fallback_year_from_pdf_first_pages returns the same year as the shared selection
\* policy (sort all (year, score) pairs of all lines descending by (score, year), take
\* the maximum year among the top score), except that it returns no year when there
\* are no candidates or the winning score is <= 0.
C17_SinglePassIsPolicy ==
    (AfterYear /\ Structured(CurDoc).year = None)
        => pdf_rec[1].year = PolicyYear(YearPool(PagesTextLines(CurDoc, 2)))

\* two years share the top score 95 and the newer one has been returned, although it
\* comes after the older one and a newer year has a lower score
C17_Witness ==
    /\ AfterYear
    /\ PagesTextLines(CurDoc, 2) = <<"Vol. 3, 2021", "June 2019", "May 2020">>
    /\ YearPool(PagesTextLines(CurDoc, 2)) = << <<2021, 85>>, <<2019, 95>>, <<2020, 95>> >>
    /\ pdf_rec[1].year = Some(2020)

====
